---- MODULE Spec2Model ----
(***************************************************************************)
(* Kernel console (kconsole.c): the command registry with its two-level    *)
(* locking, the command-line parser and the dispatch of handlers.          *)
(*                                                                         *)
(* Strings are sequences of byte values without their terminator; a read   *)
(* at or past the length yields NUL.  Indices into C strings are kept      *)
(* 0-based as in the source (start, end, i).                               *)
(***************************************************************************)
EXTENDS Integers, Sequences, FiniteSets, TLC

(* ------------------------------------------------------------------ *)
(* Bounds of the model.                                                *)
(* ------------------------------------------------------------------ *)

\* number of cmd_info_t structures that exist in the kernel image
NCmds == 2

\* the size of a row of history, the longest line clever_readline accepts
MAX_CMDLINE == 2

\* the number of rows of history
KCONSOLE_HISTORY == 2

(* ------------------------------------------------------------------ *)
(* Values.                                                             *)
(* ------------------------------------------------------------------ *)

\* execution contexts that run console code concurrently
Procs == {"cpu0", "cpu1"}

\* addresses of the cmd_info_t structures; the order of the integers is
\* the order of the addresses
Cmds == 1..NCmds

\* the NULL pointer (cmd_info_t *, link_t *)
NULL == 0

\* the address of the list head cmd_head, as a link_t *
HEAD == -1

\* no context holds the spinlock
Free == "free"

NUL == 0

ARG_TYPE_INVALID == "ARG_TYPE_INVALID"

ARG_TYPE_INT == "ARG_TYPE_INT"

ARG_TYPE_STRING == "ARG_TYPE_STRING"

ARG_TYPE_VAR == "ARG_TYPE_VAR"

\* bytes used by the names and lines of the model:
\* 'd' = 100, 'u' = 117, ' ' = 32, '7' = 55
Name_d == <<100>>

Name_du == <<100, 117>>

\* the contents (name, argument schema) a registering subsystem may have
\* given a cmd_info_t: two structures may carry the same name, one name may
\* be a prefix of another
Templates ==
  { [name |-> Name_d,  argc |-> 0, argtype |-> <<>>, arglen |-> <<>>],
    [name |-> Name_du, argc |-> 1, argtype |-> <<ARG_TYPE_INT>>, arglen |-> <<0>>],
    [name |-> Name_d,  argc |-> 1, argtype |-> <<ARG_TYPE_INT>>, arglen |-> <<0>>] }

\* command lines handed to parse_cmdline (all of length > 0):
\* " ", "d", "du", "d 7", "du u"
Lines ==
  { <<32>>, <<100>>, <<100, 117>>, <<100, 32, 55>>, <<100, 117, 32, 117>> }

\* prefixes handed to cmdtab_compl: "d", "u"
Prefixes == { <<100>>, <<117>> }

\* a name with a blank in it: "d u"
Name_d_u == <<100, 32, 117>>

\* the structures of the sequential parser specification: every kind of
\* argument, schemas of two arguments, string buffers of capacity 3
ParseTemplates ==
  { [name |-> Name_d,  argc |-> 0, argtype |-> <<>>, arglen |-> <<>>],
    [name |-> Name_du, argc |-> 1, argtype |-> <<ARG_TYPE_INT>>, arglen |-> <<0>>],
    [name |-> Name_d,  argc |-> 2, argtype |-> <<ARG_TYPE_INT, ARG_TYPE_INT>>,
     arglen |-> <<0, 0>>],
    [name |-> Name_d,  argc |-> 2,
     argtype |-> <<ARG_TYPE_STRING, ARG_TYPE_STRING>>, arglen |-> <<3, 3>>],
    [name |-> Name_du, argc |-> 1, argtype |-> <<ARG_TYPE_VAR>>, arglen |-> <<3>>],
    [name |-> Name_du, argc |-> 2,
     argtype |-> <<ARG_TYPE_INVALID, ARG_TYPE_INT>>, arglen |-> <<0, 0>>],
    [name |-> Name_d_u, argc |-> 0, argtype |-> <<>>, arglen |-> <<>>] }

\* the lines of the sequential parser specification
\* ('&' = 38, '*' = 42, '"' = 34)
ParseLines ==
  { <<100>>,                                  \* d
    <<100, 117>>,                             \* du
    <<100, 32, 117>>,                         \* d u
    <<100, 32, 100, 117, 32, 117, 55>>,       \* d du u7
    <<100, 32, 100, 117, 117, 32, 117>>,      \* d duu u
    <<100, 32, 117, 32, 55>>,                 \* d u 7
    <<100, 32, 55, 32, 117>>,                 \* d 7 u
    <<100, 32, 55, 32, 55>>,                  \* d 7 7
    <<100, 32, 55, 32, 55, 32, 55>>,          \* d 7 7 7
    <<100, 117, 32, 55, 55>>,                 \* du 77
    <<100, 117, 32, 55, 117>>,                \* du 7u
    <<100, 117, 32, 42, 55>>,                 \* du *7
    <<100, 117, 32, 38, 117>>,                \* du &u
    <<100, 117, 32, 117>>,                    \* du u
    <<100, 117, 32, 42, 117>>,                \* du *u
    <<100, 117, 32, 34, 117, 34>>,            \* du "u"
    <<100, 117, 32, 34, 117, 117, 117, 34>>,  \* du "uuu"
    <<100, 117, 32, 34>>,                     \* du "
    <<100, 117, 32, 117, 32, 55>>,            \* du u 7
    <<100, 117, 32, 55, 32, 55>> }            \* du 7 7

(* ------------------------------------------------------------------ *)
(* C library functions used by the console.                            *)
(* ------------------------------------------------------------------ *)

max(a, b) == IF a > b THEN a ELSE b

min(a, b) == IF a < b THEN a ELSE b

strlen(s) == Len(s)

\* the byte at 0-based index k of the string s
CharAt(s, k) == IF k >= 0 /\ k < Len(s) THEN s[k + 1] ELSE NUL

\* the string that starts at 0-based index k of s (the pointer s + k)
StrFrom(s, k) == IF k >= Len(s) THEN <<>> ELSE SubSeq(s, k + 1, Len(s))

isspace(c) == c \in {32, 9, 10, 11, 12, 13}

RECURSIVE strncmp_from(_, _, _, _)
strncmp_from(a, b, k, n) ==
  IF k >= n THEN 0
  ELSE IF CharAt(a, k) # CharAt(b, k)
       THEN (IF CharAt(a, k) < CharAt(b, k) THEN -1 ELSE 1)
       ELSE IF CharAt(a, k) = NUL THEN 0
            ELSE strncmp_from(a, b, k + 1, n)

\* strncmp: compares at most n bytes and stops at the first NUL
strncmp(a, b, n) == strncmp_from(a, b, 0, n)

(* ------------------------------------------------------------------ *)
(* parse_argument, parse_int_arg and the argument conversions.         *)
(* ------------------------------------------------------------------ *)

RECURSIVE pa_loop(_, _, _, _, _)
\* the for loop of parse_argument from index k on
pa_loop(line, len, k, st, found_start) ==
  IF k >= len THEN [found |-> found_start, start |-> st, end |-> k - 1]
  ELSE IF ~found_start
       THEN IF isspace(CharAt(line, k))
            THEN pa_loop(line, len, k + 1, st + 1, FALSE)
            ELSE pa_loop(line, len, k + 1, st, TRUE)
       ELSE IF isspace(CharAt(line, k))
            THEN [found |-> TRUE, start |-> st, end |-> k - 1]
            ELSE pa_loop(line, len, k + 1, st, TRUE)

\* mutant of parse_argument: the search starts at the head of the line
parse_argument_rewound(line, len, st) == pa_loop(line, len, 0, 0, FALSE)

\* parse_argument(cmdline, len, &start, &end): the return value and the
\* values left in *start and *end
parse_argument(line, len, st) == pa_loop(line, len, st, st, FALSE)

isdigit(c) == c >= 48 /\ c <= 57

RECURSIVE atoi_from(_, _, _)
atoi_from(text, k, acc) ==
  IF isdigit(CharAt(text, k))
  THEN atoi_from(text, k + 1, acc * 10 + (CharAt(text, k) - 48))
  ELSE acc

\* atoi of a text that starts with a digit
atoi(text) == atoi_from(text, 0, 0)

\* values symtab_addr_lookup may return
SymtabRc == {"EOK", "ENOENT", "EOVERFLOW", "ENOTSUP"}

\* words a read of kernel memory may yield
MemWords == {0, 1}

\* mutant of symtab_msg: the switch has only its default case
symtab_msg_default(rc) == "No symbol information available."

\* what parse_int_arg prints for the value rc of symtab_addr_lookup
symtab_msg(rc) ==
  CASE rc = "ENOENT" -> "Symbol not found."
    [] rc = "EOVERFLOW" -> "Duplicate symbol."
    [] OTHER -> "No symbol information available."

\* mutant of is_symbol: every text is taken for a symbol name
is_symbol_always(c) == TRUE

\* the test of parse_int_arg on the first byte after the sigil
is_symbol(c) == c < 48 \/ c > 57

\* parse_int_arg(text, len, &result): the possible outcomes, each the return
\* value rc, whether *result was written and the value written, what
\* symtab_addr_lookup returned ("none" when it was not called) and the
\* messages printed
parse_int_arg(text, len) ==
  LET sigil == CharAt(text, 0)
      isaddr == sigil = 38
      isptr == sigil # 38 /\ sigil = 42
      t == IF isaddr \/ isptr THEN StrFrom(text, 1) ELSE text
  IN IF is_symbol(CharAt(t, 0))
     THEN { [rc |-> -1, written |-> FALSE, result |-> 0, lookup |-> r,
             msgs |-> <<symtab_msg(r)>>] : r \in SymtabRc }
     ELSE IF isptr
          THEN { [rc |-> 0, written |-> TRUE, result |-> w, lookup |-> "none",
                  msgs |-> <<>>] : w \in MemWords }
          ELSE { [rc |-> 0, written |-> TRUE, result |-> atoi(t),
                  lookup |-> "none", msgs |-> <<>>] }

\* strncpy(dst, src, n) of the kernel library, into an array dst: bytes of
\* src are copied until n bytes or the NUL of src have been copied, and if
\* no NUL was copied the n-th byte written is replaced by NUL. The call
\* sites rely on it: each passes one more than the bytes it wants
\* (kconsole.c lines 345, 536, 633 and 646).
strncpy(dst, src, n) ==
  [k \in 1..Len(dst) |->
     IF k <= n /\ k <= strlen(src) + 1
     THEN (IF k = n THEN NUL ELSE CharAt(src, k - 1))
     ELSE dst[k]]

\* the number of bytes strncpy(dst, src, n) writes
strncpy_count(src, n) == min(n, strlen(src) + 1)

\* dst[k] = NUL
set_nul(dst, k) ==
  [j \in 1..Len(dst) |-> IF j = k + 1 THEN NUL ELSE dst[j]]

\* strncpy(buf, src, n); buf[z] = '\0' on the buffer of capacity cap of the
\* argument a; past records a write at an index that is not below cap
buf_store(a, cap, src, n, z) ==
  [a EXCEPT !.buffer = set_nul(strncpy(a.buffer, src, n), z),
            !.past = a.past \/ strncpy_count(src, n) > cap \/ z >= cap]

\* mutant of string_z: the terminator is bounded by the capacity itself
string_z_at_cap(st, en, cap) == min((en - st) + 1, cap)

\* ARG_TYPE_STRING: the index of the terminator
string_z(st, en, cap) == min((en - st) + 1, cap - 1)

\* ARG_TYPE_STRING: the length handed to strncpy
string_n(st, en, cap) == min((en - st) + 2, cap)

\* mutant of var_n: the closing quote is asked for as well
var_n_with_quote(st, en, cap) == min((en - st) + 1, cap)

\* ARG_TYPE_VAR, quoted: the length handed to strncpy
var_n(st, en, cap) == min(en - st, cap)

\* ARG_TYPE_VAR, quoted: the index of the terminator
var_z(st, en, cap) == min(en - st, cap - 1)

\* the symtab_addr_lookup calls of an outcome of parse_int_arg
lookups_of(o) == IF o.lookup = "none" THEN <<>> ELSE <<o.lookup>>

\* the body of the switch on cmd->argv[i].type: the possible outcomes, each
\* the value of error, the argument storage afterwards, the results of the
\* symbol lookups made and the messages printed
convert(a, type, cap, line, st, en) ==
  CASE type = ARG_TYPE_STRING ->
         { [error |-> 0,
            arg |-> buf_store(a, cap, StrFrom(line, st),
                              string_n(st, en, cap), string_z(st, en, cap)),
            lookups |-> <<>>, msgs |-> <<>>] }
    [] type = ARG_TYPE_INT ->
         { [error |-> IF o.rc # 0 THEN 1 ELSE 0,
            arg |-> IF o.written THEN [a EXCEPT !.intval = o.result] ELSE a,
            lookups |-> lookups_of(o), msgs |-> o.msgs] :
           o \in parse_int_arg(StrFrom(line, st), en - st + 1) }
    [] type = ARG_TYPE_VAR ->
         IF st # en /\ CharAt(line, st) = 34 /\ CharAt(line, en) = 34
         THEN { [error |-> 0,
                 arg |-> [buf_store(a, cap, StrFrom(line, st + 1),
                                    var_n(st, en, cap), var_z(st, en, cap))
                            EXCEPT !.vartype = ARG_TYPE_STRING],
                 lookups |-> <<>>, msgs |-> <<>>] }
         ELSE { IF o.rc = 0
                THEN [error |-> 0,
                      arg |-> [a EXCEPT !.intval = o.result,
                                        !.vartype = ARG_TYPE_INT],
                      lookups |-> lookups_of(o), msgs |-> o.msgs]
                ELSE [error |-> 1, arg |-> a, lookups |-> lookups_of(o),
                      msgs |-> o.msgs \o <<"Unrecognized variable argument.">>] :
                o \in parse_int_arg(StrFrom(line, st), en - st + 1) }
    [] OTHER -> { [error |-> 1, arg |-> a, lookups |-> <<>>,
                   msgs |-> <<"invalid argument type">>] }

(* ------------------------------------------------------------------ *)
(* State.                                                              *)
(* ------------------------------------------------------------------ *)

VARIABLES
  info,       \* the cmd_info_t structures: name, argc, argument schema
  argv,       \* the argument storage of each cmd_info_t (cmd->argv[i])
  cmd_head,   \* the command list, in list order
  cmd_lock,   \* owner of the spinlock protecting the list
  lock,       \* owner of each cmd_info_t's spinlock
  pc,         \* position of each context in the console code
  cmd,        \* cmd_register: its parameter; parse_cmdline: the local cmd
  cur,        \* the list cursor of cmd_register and of parse_cmdline
  ret,        \* value returned by the last cmd_register / cmdtab_compl
  cmdline,    \* parse_cmdline: its parameter
  start,      \* parse_cmdline: local
  end,        \* parse_cmdline: local
  i,          \* parse_cmdline: local
  error,      \* parse_cmdline: local
  cmd_info,   \* kconsole: local, the value returned by parse_cmdline
  report,     \* the messages printed by the parse_cmdline in progress
  lookups,    \* what its calls of symtab_addr_lookup returned
  name,       \* cmdtab_compl: its parameter (prefix in, hint out)
  startpos,   \* cmdtab_compl: local
  foundtxt,   \* cmdtab_compl: local (the text it points to; <<>> when NULL)
  found,      \* cmdtab_compl: local
  output,     \* cmdtab_compl: static buffer
  history,    \* the static array history, its rows one after the other
  histposition, \* clever_readline: static
  curlen,     \* clever_readline: local
  position,   \* clever_readline: local
  tmp,        \* clever_readline: static buffer (the string it holds)
  kcon,       \* kconsole: its parameter kcon
  stdin       \* whether there is an input device (stdin != NULL)

vars == <<info, argv, cmd_head, cmd_lock, lock, pc, cmd, cur, ret, cmdline,
          start, end, i, error, cmd_info, report, lookups, name, startpos,
          foundtxt, found, output, history, histposition, curlen, position,
          tmp, kcon, stdin>>

regvars == <<cmd, cur, ret>>

parvars == <<cmdline, start, end, i, error, cmd_info, report, lookups>>

complvars == <<name, startpos, foundtxt, found>>

edvars == <<history, histposition, curlen, position, tmp>>

kvars == <<kcon, stdin>>

(* ------------------------------------------------------------------ *)
(* The command list (adt/list.h).                                      *)
(* ------------------------------------------------------------------ *)

\* the structures linked in the list
Linked(l) == { l[k] : k \in 1..Len(l) }

\* mutant of list_first: a scan that starts at the head itself and so ends
\* before its first link
list_first_from_head(l) == HEAD

\* cmd_head.next
list_first(l) == IF Len(l) = 0 THEN HEAD ELSE l[1]

\* link->next of a linked structure
list_next(l, c) ==
  LET k == CHOOSE k \in 1..Len(l) : l[k] = c
  IN IF k = Len(l) THEN HEAD ELSE l[k + 1]

list_append(c, l) == Append(l, c)

\* the initial argument storage of a structure
ArgInit(t) ==
  [k \in 1..t.argc |->
     [buffer |-> [j \in 1..t.arglen[k] |-> NUL], past |-> FALSE,
      intval |-> 0, vartype |-> ARG_TYPE_INVALID]]

\* the statics and the locals before any operation of the console, the
\* structures given
InitVars ==
  /\ argv = [c \in Cmds |-> ArgInit(info[c])]
  /\ cmd_head = <<>>
  /\ cmd_lock = Free
  /\ lock = [c \in Cmds |-> Free]
  /\ kcon = [p \in Procs |-> TRUE]
  /\ cmd = [p \in Procs |-> NULL]
  /\ cur = [p \in Procs |-> HEAD]
  /\ ret = [p \in Procs |-> 0]
  /\ cmdline = [p \in Procs |-> <<>>]
  /\ start = [p \in Procs |-> 0]
  /\ end = [p \in Procs |-> 0]
  /\ i = [p \in Procs |-> 0]
  /\ error = [p \in Procs |-> 0]
  /\ cmd_info = [p \in Procs |-> NULL]
  /\ report = [p \in Procs |-> <<>>]
  /\ lookups = [p \in Procs |-> <<>>]
  /\ name = [p \in Procs |-> <<>>]
  /\ startpos = [p \in Procs |-> NULL]
  /\ foundtxt = [p \in Procs |-> <<>>]
  /\ found = [p \in Procs |-> 0]
  /\ output = <<>>
  /\ history = [k \in 1..(KCONSOLE_HISTORY * MAX_CMDLINE) |-> NUL]
  /\ histposition = 0
  /\ curlen = 0
  /\ position = 0
  /\ tmp = <<>>

\* the state before any operation of the console, every context in the
\* loop of a console
InitState ==
  /\ pc = [p \in Procs |-> "idle"]
  /\ stdin = TRUE
  /\ InitVars

Init ==
  /\ info \in [Cmds -> Templates]
  /\ InitState

(* ------------------------------------------------------------------ *)
(* cmd_register.                                                       *)
(* ------------------------------------------------------------------ *)

\* mutant of reg_order: the linked structure is always locked first
reg_order_linked_first(hlp, c) == <<hlp, c>>

\* the structures whose locks the duplicate check takes, in the order in
\* which it takes them
reg_order(hlp, c) == IF hlp < c THEN <<hlp, c>> ELSE <<c, hlp>>

\* mutant of reg_same_name: the comparison stops at the shorter length
reg_same_name_shorter(hlp, c) ==
  strncmp(info[hlp].name, info[c].name,
          min(strlen(info[c].name), strlen(info[hlp].name))) = 0

\* the duplicate test of cmd_register
reg_same_name(hlp, c) ==
  strncmp(info[hlp].name, info[c].name,
          max(strlen(info[c].name), strlen(info[hlp].name))) = 0

\* mutant of reg_is_listed: the test for the structure itself is missing
reg_is_listed_never(h, c) == FALSE

\* whether the loop of cmd_register, arriving at the link h, returns 0
\* because the structure itself is linked there
reg_is_listed(h, c) == h = c

\* the locks after spinlock_unlock(&hlp->lock); spinlock_unlock(&cmd->lock)
reg_unlock_both(lk, hlp, c) == [lk EXCEPT ![hlp] = Free, ![c] = Free]

\* a context returns from an operation of the console: its locals die
Return(p) ==
  /\ pc' = [pc EXCEPT ![p] = "idle"]
  /\ cmd' = [cmd EXCEPT ![p] = NULL]
  /\ cur' = [cur EXCEPT ![p] = HEAD]
  /\ ret' = [ret EXCEPT ![p] = 0]
  /\ cmdline' = [cmdline EXCEPT ![p] = <<>>]
  /\ start' = [start EXCEPT ![p] = 0]
  /\ end' = [end EXCEPT ![p] = 0]
  /\ i' = [i EXCEPT ![p] = 0]
  /\ error' = [error EXCEPT ![p] = 0]
  /\ cmd_info' = [cmd_info EXCEPT ![p] = NULL]
  /\ report' = [report EXCEPT ![p] = <<>>]
  /\ lookups' = [lookups EXCEPT ![p] = <<>>]
  /\ name' = [name EXCEPT ![p] = <<>>]
  /\ startpos' = [startpos EXCEPT ![p] = NULL]
  /\ foundtxt' = [foundtxt EXCEPT ![p] = <<>>]
  /\ found' = [found EXCEPT ![p] = 0]

\* mutant of reg_at: a structure found linked is reported as success
reg_at_listed_ok(p, h) ==
  /\ cur' = [cur EXCEPT ![p] = h]
  /\ IF h = HEAD
     THEN /\ cmd_head' = list_append(cmd[p], cmd_head)
          /\ cmd_lock' = p
          /\ pc' = [pc EXCEPT ![p] = "reg_added"]
          /\ UNCHANGED ret
     ELSE IF reg_is_listed(h, cmd[p])
          THEN /\ cmd_lock' = Free
               /\ ret' = [ret EXCEPT ![p] = 1]
               /\ pc' = [pc EXCEPT ![p] = "reg_ret"]
               /\ UNCHANGED cmd_head
          ELSE /\ cmd_lock' = p
               /\ pc' = [pc EXCEPT ![p] = "reg_lock1"]
               /\ UNCHANGED <<cmd_head, ret>>

\* the loop of cmd_register with cur = h, up to its next spinlock_lock:
\* past the last link the structure is appended; at the structure itself
\* cmd_lock is unlocked and 0 returned
reg_at(p, h) ==
  /\ cur' = [cur EXCEPT ![p] = h]
  /\ IF h = HEAD
     THEN /\ cmd_head' = list_append(cmd[p], cmd_head)
          /\ cmd_lock' = p
          /\ pc' = [pc EXCEPT ![p] = "reg_added"]
          /\ UNCHANGED ret
     ELSE IF reg_is_listed(h, cmd[p])
          THEN /\ cmd_lock' = Free
               /\ ret' = [ret EXCEPT ![p] = 0]
               /\ pc' = [pc EXCEPT ![p] = "reg_ret"]
               /\ UNCHANGED cmd_head
          ELSE /\ cmd_lock' = p
               /\ pc' = [pc EXCEPT ![p] = "reg_lock1"]
               /\ UNCHANGED <<cmd_head, ret>>

\* a context calls cmd_register(c)
cmd_register(p, c) ==
  /\ pc[p] = "idle"
  /\ pc' = [pc EXCEPT ![p] = "reg_lock"]
  /\ cmd' = [cmd EXCEPT ![p] = c]
  /\ UNCHANGED <<kvars, edvars, info, argv, cmd_head, cmd_lock, lock, cur, ret, parvars,
                 complvars, output>>

\* spinlock_lock(&cmd_lock); cur = cmd_head.next
reg_lock(p) ==
  /\ pc[p] = "reg_lock"
  /\ cmd_lock = Free
  /\ reg_at(p, list_first(cmd_head))
  /\ UNCHANGED <<kvars, edvars, info, argv, lock, cmd, parvars, complvars, output>>

\* the first spinlock_lock of the duplicate check
reg_lock1(p) ==
  /\ pc[p] = "reg_lock1"
  /\ lock[reg_order(cur[p], cmd[p])[1]] = Free
  /\ lock' = [lock EXCEPT ![reg_order(cur[p], cmd[p])[1]] = p]
  /\ pc' = [pc EXCEPT ![p] = "reg_lock2"]
  /\ UNCHANGED <<kvars, edvars, info, argv, cmd_head, cmd_lock, regvars, parvars, complvars,
                 output>>

\* the second spinlock_lock of the duplicate check
reg_lock2(p) ==
  /\ pc[p] = "reg_lock2"
  /\ lock[reg_order(cur[p], cmd[p])[2]] = Free
  /\ lock' = [lock EXCEPT ![reg_order(cur[p], cmd[p])[2]] = p]
  /\ pc' = [pc EXCEPT ![p] = "reg_cmp"]
  /\ UNCHANGED <<kvars, edvars, info, argv, cmd_head, cmd_lock, regvars, parvars, complvars,
                 output>>

\* the name comparison and the unlocks; then return 0, or cur = cur->next
\* and the loop again
reg_cmp(p) ==
  /\ pc[p] = "reg_cmp"
  /\ lock' = reg_unlock_both(lock, cur[p], cmd[p])
  /\ IF reg_same_name(cur[p], cmd[p])
     THEN /\ cmd_lock' = Free
          /\ ret' = [ret EXCEPT ![p] = 0]
          /\ pc' = [pc EXCEPT ![p] = "reg_ret"]
          /\ UNCHANGED <<cur, cmd_head>>
     ELSE reg_at(p, list_next(cmd_head, cur[p]))
  /\ UNCHANGED <<kvars, edvars, info, argv, cmd, parvars, complvars, output>>

\* spinlock_unlock(&cmd_lock); return 1
reg_added(p) ==
  /\ pc[p] = "reg_added"
  /\ cmd_lock' = Free
  /\ ret' = [ret EXCEPT ![p] = 1]
  /\ pc' = [pc EXCEPT ![p] = "reg_ret"]
  /\ UNCHANGED <<kvars, edvars, info, argv, cmd_head, lock, cmd, cur, parvars, complvars,
                 output>>

\* the caller of cmd_register has its return value
reg_ret(p) ==
  /\ pc[p] = "reg_ret"
  /\ Return(p)
  /\ UNCHANGED <<kvars, edvars, info, argv, cmd_head, cmd_lock, lock, output>>

Register(p) ==
  \/ \E c \in Cmds : cmd_register(p, c)
  \/ reg_lock(p)
  \/ reg_lock1(p)
  \/ reg_lock2(p)
  \/ reg_cmp(p)
  \/ reg_added(p)
  \/ reg_ret(p)

(* ------------------------------------------------------------------ *)
(* kconsole: parse_cmdline and the invocation of the handler.          *)
(* ------------------------------------------------------------------ *)

\* mutant of par_match: the comparison stops at the shorter length
par_match_shorter(hlp, line, st, en) ==
  strncmp(info[hlp].name, StrFrom(line, st),
          min(strlen(info[hlp].name), en - st + 1)) = 0

\* the exact lookup of parse_cmdline
par_match(hlp, line, st, en) ==
  strncmp(info[hlp].name, StrFrom(line, st),
          max(strlen(info[hlp].name), en - st + 1)) = 0

\* the descriptor locks when parse_cmdline returns cmd
par_return_locks(lk, c) == [lk EXCEPT ![c] = Free]

\* mutant of par_fail_locks: a failing path returns without the unlock
par_fail_locks_kept(lk, c) == lk

\* the descriptor locks when parse_cmdline returns NULL after the lookup
par_fail_locks(lk, c) == [lk EXCEPT ![c] = Free]

\* the printf calls of parse_cmdline and of the conversions it calls
par_print(p, ms) == report' = [report EXCEPT ![p] = report[p] \o ms]

\* parse_cmdline prints the messages ms and returns r to kconsole
par_return(p, r, ms) ==
  /\ par_print(p, ms)
  /\ cmd_info' = [cmd_info EXCEPT ![p] = r]
  /\ pc' = [pc EXCEPT ![p] = "k_check"]

\* the lookup loop of parse_cmdline with cur = h, up to its next
\* spinlock_lock: past the last link cmd_lock is unlocked and, cmd being
\* NULL, "Unknown command." printed and NULL returned
par_at(p, h) ==
  /\ cur' = [cur EXCEPT ![p] = h]
  /\ IF h = HEAD
     THEN /\ cmd_lock' = Free
          /\ par_return(p, NULL, <<"Unknown command.">>)
     ELSE /\ cmd_lock' = p
          /\ pc' = [pc EXCEPT ![p] = "par_lockhlp"]
          /\ UNCHANGED <<cmd_info, report>>

\* kconsole has read the line l (its length is not 0) and calls
\* parse_cmdline, which looks for the first token
parse_cmdline(p, l) ==
  /\ pc[p] = "idle"
  /\ cmdline' = [cmdline EXCEPT ![p] = l]
  /\ LET a == parse_argument(l, Len(l), 0)
     IN /\ start' = [start EXCEPT ![p] = a.start]
        /\ end' = [end EXCEPT ![p] = a.end]
        /\ IF a.found
           THEN /\ pc' = [pc EXCEPT ![p] = "par_lock"]
                /\ UNCHANGED <<cmd_info, report>>
           ELSE par_return(p, NULL, <<>>)
  /\ UNCHANGED <<kvars, edvars, info, argv, cmd_head, cmd_lock, lock, regvars, i, error,
                 lookups, complvars, output>>

\* spinlock_lock(&cmd_lock); cur = cmd_head.next
par_lock(p) ==
  /\ pc[p] = "par_lock"
  /\ cmd_lock = Free
  /\ par_at(p, list_first(cmd_head))
  /\ UNCHANGED <<kvars, edvars, info, argv, cmd_head, lock, cmd, ret, cmdline, start, end, i,
                 error, lookups, complvars, output>>

\* spinlock_lock(&hlp->lock)
par_lockhlp(p) ==
  /\ pc[p] = "par_lockhlp"
  /\ lock[cur[p]] = Free
  /\ lock' = [lock EXCEPT ![cur[p]] = p]
  /\ pc' = [pc EXCEPT ![p] = "par_cmp"]
  /\ UNCHANGED <<kvars, edvars, info, argv, cmd_head, cmd_lock, regvars, parvars, complvars,
                 output>>

\* the comparison: a match leaves the loop with hlp locked and unlocks
\* cmd_lock; otherwise unlock hlp, cur = cur->next and the loop again
par_cmp(p) ==
  /\ pc[p] = "par_cmp"
  /\ IF par_match(cur[p], cmdline[p], start[p], end[p])
     THEN /\ cmd' = [cmd EXCEPT ![p] = cur[p]]
          /\ cmd_lock' = Free
          /\ pc' = [pc EXCEPT ![p] = "par_args"]
          /\ UNCHANGED <<lock, cur, cmd_info, report>>
     ELSE /\ lock' = [lock EXCEPT ![cur[p]] = Free]
          /\ par_at(p, list_next(cmd_head, cur[p]))
          /\ UNCHANGED cmd
  /\ UNCHANGED <<kvars, edvars, info, argv, cmd_head, ret, cmdline, start, end, i, error,
                 lookups, complvars, output>>

\* one iteration of the argument loop
par_arg(p) ==
  /\ pc[p] = "par_args"
  /\ i[p] < info[cmd[p]].argc
  /\ LET a == parse_argument(cmdline[p], Len(cmdline[p]), end[p] + 1)
         k == i[p] + 1
     IN /\ start' = [start EXCEPT ![p] = a.start]
        /\ end' = [end EXCEPT ![p] = a.end]
        /\ IF ~a.found
           THEN /\ lock' = par_fail_locks(lock, cmd[p])
                /\ par_return(p, NULL, <<"Too few arguments.">>)
                /\ UNCHANGED <<argv, i, error, lookups>>
           ELSE /\ \E o \in convert(argv[cmd[p]][k], info[cmd[p]].argtype[k],
                                    info[cmd[p]].arglen[k], cmdline[p],
                                    a.start, a.end) :
                     /\ argv' = [argv EXCEPT ![cmd[p]][k] = o.arg]
                     /\ error' = [error EXCEPT ![p] = o.error]
                     /\ lookups' = [lookups EXCEPT
                                      ![p] = lookups[p] \o o.lookups]
                     /\ par_print(p, o.msgs)
                /\ i' = [i EXCEPT ![p] = i[p] + 1]
                /\ UNCHANGED <<lock, pc, cmd_info>>
  /\ UNCHANGED <<kvars, edvars, info, cmd_head, cmd_lock, regvars, cmdline, complvars, output>>

\* mutant of par_extra: a further token is not looked for
par_extra_ignored(a) == FALSE

\* the test for a token after the last argument, a the result of the
\* parse_argument that looks for it
par_extra(a) == a.found

\* after the loop: the error test, the test for further tokens, the return
par_end(p) ==
  /\ pc[p] = "par_args"
  /\ i[p] >= info[cmd[p]].argc
  /\ IF error[p] # 0
     THEN /\ lock' = par_fail_locks(lock, cmd[p])
          /\ par_return(p, NULL, <<>>)
          /\ UNCHANGED <<start, end>>
     ELSE LET a == parse_argument(cmdline[p], Len(cmdline[p]), end[p] + 1)
          IN /\ start' = [start EXCEPT ![p] = a.start]
             /\ end' = [end EXCEPT ![p] = a.end]
             /\ IF par_extra(a)
                THEN /\ lock' = par_fail_locks(lock, cmd[p])
                     /\ par_return(p, NULL, <<"Too many arguments.">>)
                ELSE /\ lock' = par_return_locks(lock, cmd[p])
                     /\ par_return(p, cmd[p], <<>>)
  /\ UNCHANGED <<kvars, edvars, info, argv, cmd_head, cmd_lock, regvars, cmdline, i, error,
                 lookups, complvars, output>>

\* mutant of k_check: the handler is called whatever parse_cmdline returned
k_check_always_calls(p) ==
  /\ pc[p] = "k_check"
  /\ pc' = [pc EXCEPT ![p] = "k_func"]
  /\ UNCHANGED <<regvars, parvars, complvars>>
  /\ UNCHANGED <<kvars, edvars, info, argv, cmd_head, cmd_lock, lock, output>>

\* kconsole: if (!cmd_info) continue; else the handler is called
k_check(p) ==
  /\ pc[p] = "k_check"
  /\ IF cmd_info[p] = NULL
     THEN Return(p)
     ELSE /\ pc' = [pc EXCEPT ![p] = "k_func"]
          /\ UNCHANGED <<regvars, parvars, complvars>>
  /\ UNCHANGED <<kvars, edvars, info, argv, cmd_head, cmd_lock, lock, output>>

\* the handler cmd_info->func(cmd_info->argv) returns
k_func(p) ==
  /\ pc[p] = "k_func"
  /\ Return(p)
  /\ UNCHANGED <<kvars, edvars, info, argv, cmd_head, cmd_lock, lock, output>>

Kconsole(p) ==
  \/ \E l \in Lines : parse_cmdline(p, l)
  \/ par_lock(p)
  \/ par_lockhlp(p)
  \/ par_cmp(p)
  \/ par_arg(p)
  \/ par_end(p)
  \/ k_check(p)
  \/ k_func(p)

(* ------------------------------------------------------------------ *)
(* Completion of command names: cmdtab_search_one and cmdtab_compl.    *)
(* ------------------------------------------------------------------ *)

RECURSIVE search_loop(_, _, _)
\* the for loop of cmdtab_search_one from the link sp on: the link it stops
\* at and whether a name beginning with nm was found there
search_loop(l, nm, sp) ==
  IF sp = HEAD THEN [startpos |-> HEAD, hit |-> FALSE]
  ELSE IF strlen(info[sp].name) < strlen(nm)
       THEN search_loop(l, nm, list_next(l, sp))
       ELSE IF strncmp(info[sp].name, nm, strlen(nm)) = 0
            THEN [startpos |-> sp, hit |-> TRUE]
            ELSE search_loop(l, nm, list_next(l, sp))

\* cmdtab_search_one(name, &startpos) between its lock and its unlock
cmdtab_search_one(l, nm, sp) ==
  search_loop(l, nm, IF sp = NULL THEN list_first(l) ELSE sp)

\* mutant of common_len: output is not shortened
common_len_kept(out, txt, k) == strlen(out)

RECURSIVE common_len(_, _, _)
\* the for loop of cmdtab_compl that compares output with foundtxt
common_len(out, txt, k) ==
  IF CharAt(out, k) # NUL /\ CharAt(txt, k) # NUL /\ CharAt(out, k) = CharAt(txt, k)
  THEN common_len(out, txt, k + 1)
  ELSE k

\* mutant of compl_advance: the cursor stays on the descriptor returned
compl_advance_stays(l, sp) == sp

\* startpos = startpos->next in cmdtab_compl, read without cmd_lock
compl_advance(l, sp) == list_next(l, sp)

\* a context (the line editor, on a tab) calls cmdtab_compl(nm)
cmdtab_compl(p, nm) ==
  /\ pc[p] = "idle"
  /\ name' = [name EXCEPT ![p] = nm]
  /\ output' = <<>>
  /\ pc' = [pc EXCEPT ![p] = "compl1_lock"]
  /\ UNCHANGED <<kvars, edvars, info, argv, cmd_head, cmd_lock, lock, regvars, parvars,
                 startpos, foundtxt, found>>

\* spinlock_lock(&cmd_lock) in cmdtab_search_one, first loop of cmdtab_compl
compl1_lock(p) ==
  /\ pc[p] = "compl1_lock"
  /\ cmd_lock = Free
  /\ cmd_lock' = p
  /\ pc' = [pc EXCEPT ![p] = "compl1_scan"]
  /\ UNCHANGED <<kvars, edvars, info, argv, cmd_head, lock, regvars, parvars, complvars, output>>

\* the scan of cmdtab_search_one and its unlock; when it returns NULL the
\* first loop ends: return 0, or go on to the listing, or copy output to
\* name and return found
compl1_scan(p) ==
  /\ pc[p] = "compl1_scan"
  /\ cmd_lock' = Free
  /\ LET r == cmdtab_search_one(cmd_head, name[p], startpos[p])
     IN IF r.hit
        THEN /\ startpos' = [startpos EXCEPT ![p] = r.startpos]
             /\ foundtxt' = [foundtxt EXCEPT ![p] =
                               StrFrom(info[r.startpos].name, strlen(name[p]))]
             /\ pc' = [pc EXCEPT ![p] = "compl1_got"]
             /\ UNCHANGED <<name, ret>>
        ELSE /\ foundtxt' = [foundtxt EXCEPT ![p] = <<>>]
             /\ IF found[p] = 0
                THEN /\ ret' = [ret EXCEPT ![p] = 0]
                     /\ pc' = [pc EXCEPT ![p] = "compl_ret"]
                     /\ startpos' = [startpos EXCEPT ![p] = r.startpos]
                     /\ UNCHANGED name
                ELSE IF found[p] > 1 /\ strlen(output) = 0
                     THEN /\ startpos' = [startpos EXCEPT ![p] = NULL]
                          /\ pc' = [pc EXCEPT ![p] = "compl2_lock"]
                          /\ UNCHANGED <<name, ret>>
                     ELSE /\ name' = [name EXCEPT ![p] = output]
                          /\ ret' = [ret EXCEPT ![p] = found[p]]
                          /\ pc' = [pc EXCEPT ![p] = "compl_ret"]
                          /\ startpos' = [startpos EXCEPT ![p] = r.startpos]
  /\ UNCHANGED <<kvars, edvars, info, argv, cmd_head, lock, cmd, cur, parvars, found, output>>

\* the body of the first loop: startpos = startpos->next, output, found++
compl1_got(p) ==
  /\ pc[p] = "compl1_got"
  /\ startpos' = [startpos EXCEPT ![p] = compl_advance(cmd_head, startpos[p])]
  /\ output' = IF found[p] = 0
               THEN foundtxt[p]
               ELSE SubSeq(output, 1, common_len(output, foundtxt[p], 0))
  /\ found' = [found EXCEPT ![p] = found[p] + 1]
  /\ pc' = [pc EXCEPT ![p] = "compl1_lock"]
  /\ UNCHANGED <<kvars, edvars, info, argv, cmd_head, cmd_lock, lock, regvars, parvars, name,
                 foundtxt>>

\* spinlock_lock(&cmd_lock) in cmdtab_search_one, listing loop
compl2_lock(p) ==
  /\ pc[p] = "compl2_lock"
  /\ cmd_lock = Free
  /\ cmd_lock' = p
  /\ pc' = [pc EXCEPT ![p] = "compl2_scan"]
  /\ UNCHANGED <<kvars, edvars, info, argv, cmd_head, lock, regvars, parvars, complvars, output>>

\* the scan of cmdtab_search_one and its unlock, listing loop; when it
\* returns NULL output is copied to name and found returned
compl2_scan(p) ==
  /\ pc[p] = "compl2_scan"
  /\ cmd_lock' = Free
  /\ LET r == cmdtab_search_one(cmd_head, name[p], startpos[p])
     IN /\ startpos' = [startpos EXCEPT ![p] = r.startpos]
        /\ IF r.hit
           THEN /\ foundtxt' = [foundtxt EXCEPT ![p] =
                                  StrFrom(info[r.startpos].name, strlen(name[p]))]
                /\ pc' = [pc EXCEPT ![p] = "compl2_got"]
                /\ UNCHANGED <<name, ret>>
           ELSE /\ foundtxt' = [foundtxt EXCEPT ![p] = <<>>]
                /\ name' = [name EXCEPT ![p] = output]
                /\ ret' = [ret EXCEPT ![p] = found[p]]
                /\ pc' = [pc EXCEPT ![p] = "compl_ret"]
  /\ UNCHANGED <<kvars, edvars, info, argv, cmd_head, lock, cmd, cur, parvars, found, output>>

\* the body of the listing loop: the name and description are printed,
\* startpos = startpos->next
compl2_got(p) ==
  /\ pc[p] = "compl2_got"
  /\ startpos' = [startpos EXCEPT ![p] = compl_advance(cmd_head, startpos[p])]
  /\ pc' = [pc EXCEPT ![p] = "compl2_lock"]
  /\ UNCHANGED <<kvars, edvars, info, argv, cmd_head, cmd_lock, lock, regvars, parvars, name,
                 foundtxt, found, output>>

\* the caller of cmdtab_compl has its return value and the hint
compl_ret(p) ==
  /\ pc[p] = "compl_ret"
  /\ Return(p)
  /\ UNCHANGED <<kvars, edvars, info, argv, cmd_head, cmd_lock, lock, output>>

Completion(p) ==
  \/ \E nm \in Prefixes : cmdtab_compl(p, nm)
  \/ compl1_lock(p)
  \/ compl1_scan(p)
  \/ compl1_got(p)
  \/ compl2_lock(p)
  \/ compl2_scan(p)
  \/ compl2_got(p)
  \/ compl_ret(p)

Next == \E p \in Procs : Register(p) \/ Kconsole(p) \/ Completion(p)

Spec == Init /\ [][Next]_vars

\* a step of the operation the context p has started
Continue(p) == pc[p] # "idle" /\ (Register(p) \/ Kconsole(p) \/ Completion(p))

\* a spinlock_lock(&cmd_lock) of p succeeds
TakeCmdLock(p) == reg_lock(p) \/ par_lock(p) \/ compl1_lock(p) \/ compl2_lock(p)

\* every context keeps executing the operation it is in; a handler returns
FairSpec == Spec /\ \A p \in Procs : WF_vars(Continue(p))

(* ------------------------------------------------------------------ *)
(* The parser on its own: the kconsole thread registers structures and *)
(* parses lines, no other context runs.                                *)
(* ------------------------------------------------------------------ *)

\* the context of the kconsole thread
kconsole_thread == "cpu0"

\* the first structure is any of ParseTemplates, the others are of Templates
ParseInit ==
  /\ info \in { f \in [Cmds -> ParseTemplates \cup Templates] :
                  /\ f[1] \in ParseTemplates
                  /\ \A c \in Cmds \ {1} : f[c] \in Templates }
  /\ InitState

ParseNext ==
  \/ Register(kconsole_thread)
  \/ \E l \in ParseLines : parse_cmdline(kconsole_thread, l)
  \/ par_lock(kconsole_thread)
  \/ par_lockhlp(kconsole_thread)
  \/ par_cmp(kconsole_thread)
  \/ par_arg(kconsole_thread)
  \/ par_end(kconsole_thread)
  \/ k_check(kconsole_thread)
  \/ k_func(kconsole_thread)

ParseSpec == ParseInit /\ [][ParseNext]_vars

(* ------------------------------------------------------------------ *)
(* The line editor: insert_char and clever_readline.                   *)
(*                                                                     *)
(* history is modelled as the bytes of its rows one after the other,   *)
(* so that an access past the end of a row lands in the next row, as   *)
(* it does in memory.  An access outside the whole array is undefined: *)
(* the handler that makes it ends the modelled session.  What the      *)
(* editor echoes to the terminal is not modelled.                      *)
(* ------------------------------------------------------------------ *)

\* the result of reading a byte outside history
Wild == -1

\* the byte at the 0-based offset a of history
peek(mem, a) == IF a >= 0 /\ a < Len(mem) THEN mem[a + 1] ELSE Wild

RECURSIVE mem_strlen(_, _, _)
\* strlen of the string at offset a, counting from n; Wild when the scan
\* leaves the array
mem_strlen(mem, a, n) ==
  IF peek(mem, a + n) = Wild THEN Wild
  ELSE IF peek(mem, a + n) = NUL THEN n
       ELSE mem_strlen(mem, a, n + 1)

\* the offsets of S are all inside the array
inside(mem, S) == \A a \in S : a >= 0 /\ a < Len(mem)

\* the array after the bytes W[a] have been stored at the offsets a
store(mem, W) ==
  [k \in 1..Len(mem) |-> IF (k - 1) \in DOMAIN W THEN W[k - 1] ELSE mem[k]]

\* what a handler leaves when it has made an undefined access
undefined(e) == [e EXCEPT !.ok = FALSE]

\* the row clever_readline edits: current = history[histposition]
current(e) == e.hp * MAX_CMDLINE

\* insert_char(str, ch, pos), str at the offset base: the bytes from pos up
\* to strlen(str) - 1 move up by one, the byte at strlen(str) is overwritten
insert_char(mem, base, ch, pos) ==
  LET n == mem_strlen(mem, base, 0)
      D == (base + pos)..(base + max(n, pos))
  IN IF n = Wild \/ ~inside(mem, D)
     THEN [ok |-> FALSE, mem |-> mem]
     ELSE [ok |-> TRUE,
           mem |-> store(mem, [a \in D |-> IF a = base + pos THEN ch
                                           ELSE mem[a]])]

\* mutant of char_full: a full line still takes a byte
char_full_never(e) == FALSE

\* the test that makes clever_readline ignore a byte
char_full(e) == e.curlen >= MAX_CMDLINE

\* a byte that is none of '\n', '\b', '\t', ESC
ed_char(e, c) ==
  IF char_full(e) THEN e
  ELSE LET r == insert_char(e.mem, current(e), c, e.position)
       IN IF ~r.ok THEN undefined(e)
          ELSE [e EXCEPT !.mem = r.mem, !.curlen = e.curlen + 1,
                         !.position = e.position + 1]

\* '\b'
ed_backspace(e) ==
  IF e.position = 0 THEN e
  ELSE LET D == (current(e) + e.position - 1)..(current(e) + e.curlen - 2)
       IN IF ~inside(e.mem, D) \/ ~inside(e.mem, { a + 1 : a \in D })
          THEN undefined(e)
          ELSE [e EXCEPT !.mem = store(e.mem, [a \in D |-> e.mem[a + 2]]),
                         !.curlen = e.curlen - 1,
                         !.position = e.position - 1]

\* ESC [ 3 ~
ed_delete(e) ==
  IF e.position = e.curlen THEN e
  ELSE LET D == (current(e) + e.position)..(current(e) + e.curlen - 2)
       IN IF ~inside(e.mem, D) \/ ~inside(e.mem, { a + 1 : a \in D })
          THEN undefined(e)
          ELSE [e EXCEPT !.mem = store(e.mem, [a \in D |-> e.mem[a + 2]]),
                         !.curlen = e.curlen - 1]

\* ESC [ H
ed_home(e) == [e EXCEPT !.position = 0]

\* ESC [ F
ed_end(e) == [e EXCEPT !.position = e.curlen]

\* ESC [ D
ed_left(e) == IF e.position > 0 THEN [e EXCEPT !.position = e.position - 1] ELSE e

\* ESC [ C
ed_right(e) ==
  IF e.position < e.curlen THEN [e EXCEPT !.position = e.position + 1] ELSE e

\* ESC [ A (c = 65) and ESC [ B: the row before or after becomes current
ed_updown(e, c) ==
  LET h == IF c = 65 THEN e.hp - 1 ELSE e.hp + 1
      hp == IF h < 0 THEN KCONSOLE_HISTORY - 1 ELSE h % KCONSOLE_HISTORY
      n == mem_strlen(e.mem, hp * MAX_CMDLINE, 0)
  IN IF n = Wild THEN undefined([e EXCEPT !.hp = hp])
     ELSE [e EXCEPT !.hp = hp, !.curlen = n, !.position = n]

\* the bytes ESC mod c (and, after c = 0x33, third)
ed_escape(e, mod, c, third) ==
  IF mod # 91 /\ mod # 79 THEN e
  ELSE IF c = 51 /\ third = 126 THEN ed_delete(e)
  ELSE IF c = 72 THEN ed_home(e)
  ELSE IF c = 70 THEN ed_end(e)
  ELSE IF c = 68 THEN ed_left(e)
  ELSE IF c = 67 THEN ed_right(e)
  ELSE IF c = 65 \/ c = 66 THEN ed_updown(e, c)
  ELSE e

RECURSIVE word_end(_, _, _, _)
\* the first loop of the tab handler: position moves to the end of the word
word_end(mem, base, pos, len) ==
  IF pos < len
  THEN IF peek(mem, base + pos) = Wild THEN Wild
       ELSE IF peek(mem, base + pos) # 32
            THEN word_end(mem, base, pos + 1, len)
            ELSE pos
  ELSE pos

RECURSIVE word_start(_, _, _)
\* the second loop of the tab handler, from i on, and the i++ after it: the
\* index at which the word begins
word_start(mem, base, k) ==
  IF k >= 0
  THEN IF peek(mem, base + k) = Wild THEN Wild
       ELSE IF peek(mem, base + k) # 32 THEN word_start(mem, base, k - 1)
            ELSE k + 1
  ELSE 0

\* tmp[0] == '*' || tmp[0] == '&', tested before tmp is filled
tmp_sigil(t) == Len(t) > 0 /\ t[1] \in {42, 38}

RECURSIVE take_len(_, _, _, _)
\* the number of bytes that strncpy(dst, history + a, n) leaves before the
\* NUL in dst, counting from k; Wild when a byte it needs is outside
take_len(mem, a, k, n) ==
  IF k >= n - 1 THEN k
  ELSE IF peek(mem, a + k) = Wild THEN Wild
       ELSE IF peek(mem, a + k) = NUL THEN k
            ELSE take_len(mem, a, k + 1, n)

RECURSIVE compl_loop(_, _, _, _, _)
\* the first loop of cmdtab_compl run by one context alone: found and output
compl_loop(l, nm, sp, fnd, out) ==
  LET r == cmdtab_search_one(l, nm, sp)
      txt == StrFrom(info[r.startpos].name, strlen(nm))
  IN IF ~r.hit THEN [found |-> fnd, output |-> out]
     ELSE compl_loop(l, nm, compl_advance(l, r.startpos), fnd + 1,
                     IF fnd = 0 THEN txt
                     ELSE SubSeq(out, 1, common_len(out, txt, 0)))

\* cmdtab_compl(nm) run by one context alone: its return value, what it
\* leaves in nm and in output
cmdtab_compl_alone(l, nm) ==
  LET r == compl_loop(l, nm, NULL, 0, <<>>)
  IN [found |-> r.found, name |-> IF r.found = 0 THEN nm ELSE r.output,
      output |-> r.output]

\* the hints symtab_compl may leave: "", "d"
SymHints == { <<>>, <<100>> }

\* symtab_compl(nm): the possible return values and what each leaves in nm
symtab_compl(nm) ==
  { [found |-> 0, name |-> nm] }
    \cup { [found |-> f, name |-> h] : f \in {1, 2}, h \in SymHints }

RECURSIVE tab_insert(_, _, _, _, _, _)
\* the loop of the tab handler that inserts tmp, from its byte k on
tab_insert(mem, base, t, k, len, pos) ==
  IF k < Len(t) /\ len < MAX_CMDLINE
  THEN LET r == insert_char(mem, base, t[k + 1], k + pos)
       IN IF ~r.ok THEN [ok |-> FALSE, mem |-> mem, curlen |-> len]
          ELSE tab_insert(r.mem, base, t, k + 1, len + 1, pos)
  ELSE [ok |-> TRUE, mem |-> mem, curlen |-> len]

\* the tab handler after the completion c of the word, position being at
\* the end of the word and tmp holding the hint
tab_hint(e, c) ==
  IF c.found = 0 THEN e
  ELSE LET ins == tab_insert(e.mem, current(e), c.name, 0, e.curlen, e.position)
           pos == e.position + strlen(c.name)
           f == [e EXCEPT !.tmp = c.name, !.found = c.found]
       IN IF ~ins.ok THEN undefined(f)
          ELSE IF c.found = 1 /\ pos = ins.curlen /\ ins.curlen < MAX_CMDLINE
               THEN IF ~inside(ins.mem, {current(e) + pos}) THEN undefined(f)
                    ELSE [f EXCEPT
                            !.mem = store(ins.mem,
                                          [a \in {current(e) + pos} |-> 32]),
                            !.curlen = ins.curlen + 1,
                            !.position = pos + 1]
               ELSE [f EXCEPT !.mem = ins.mem, !.curlen = ins.curlen,
                              !.position = pos]

\* '\t', l the command list: the possible outcomes
ed_tab(e, l) ==
  LET pos == word_end(e.mem, current(e), e.position, e.curlen)
      first == IF pos = Wild THEN Wild ELSE word_start(e.mem, current(e), pos - 1)
      \* under the test the shifting loop leaves i at strlen(tmp)
      k == IF tmp_sigil(e.tmp) THEN strlen(e.tmp) + 1 ELSE first
      \* position - i + 1 becomes a size_t: a negative int is a count larger
      \* than any array; with the count 0 strncpy writes dest[-1]
      d == pos - k + 1
      n == IF d < 0 THEN Len(e.mem) + 2 ELSE d
      m == take_len(e.mem, current(e) + k, 0, n)
      word == [j \in 1..m |-> e.mem[current(e) + k + j]]
  IN IF pos = Wild \/ first = Wild \/ d = 0 \/ m = Wild \/ m > MAX_CMDLINE
     THEN { undefined(e) }
     ELSE IF k = 0
          THEN LET c == cmdtab_compl_alone(l, word)
               IN { tab_hint([e EXCEPT !.position = pos, !.tmp = word,
                                       !.out = c.output, !.word = word,
                                       !.engine = "cmdtab_compl"], c) }
          ELSE { tab_hint([e EXCEPT !.position = pos, !.tmp = word,
                                    !.word = word,
                                    !.engine = "symtab_compl"], c) :
                 c \in symtab_compl(word) }

\* '\n': the loop ends; line is the string clever_readline returns
ed_enter(e) ==
  LET hp == IF e.curlen # 0 THEN (e.hp + 1) % KCONSOLE_HISTORY ELSE e.hp
      a == current(e) + e.curlen
      mem == store(e.mem, [b \in {a} |-> NUL])
  IN IF ~inside(e.mem, {a}) THEN undefined(e)
     ELSE [e EXCEPT !.mem = mem, !.hp = hp]

\* the string at current in the array mem
line_of(mem, base) ==
  [j \in 1..mem_strlen(mem, base, 0) |-> mem[base + j]]

\* the state of the editor as the handlers take it; found is the local of
\* the tab handler, word what it hands to the completion and engine the
\* function it calls
EdState ==
  [mem |-> history, hp |-> histposition, curlen |-> curlen,
   position |-> position, tmp |-> tmp, out |-> output, found |-> 0,
   word |-> <<>>, engine |-> "none", ok |-> TRUE]

\* a handler has left r: the loop goes on, or the session ends undefined;
\* a session whose curlen has sunk below -MAX_CMDLINE is not followed further
rl_apply(p, r) ==
  IF r.ok
  THEN /\ r.curlen >= -MAX_CMDLINE
       /\ history' = r.mem
       /\ histposition' = r.hp
       /\ curlen' = r.curlen
       /\ position' = r.position
       /\ tmp' = r.tmp
       /\ output' = r.out
       /\ UNCHANGED pc
  ELSE /\ pc' = [pc EXCEPT ![p] = "rl_undefined"]
       /\ UNCHANGED <<kvars, edvars, output>>

\* bytes _getc may return that are not '\n', '\b', '\t' or ESC: 'd', ' '
Keys == {100, 32}

\* the bytes _getc may return after ESC: the modifier ('[', 'O' or
\* another), the code ('3', H, F, D, C, A, B or another) and, read only
\* after '[' or 'O' and '3', a third ('~' or another)
EscSeqs ==
  { s \in {91, 79, 0} \X {51, 72, 70, 68, 67, 65, 66, 0} \X {126, 0} :
      /\ s[1] = 0 => s[2] = 0
      /\ (s[1] = 0 \/ s[2] # 51) => s[3] = 0 }

\* kconsole calls clever_readline
rl_call(p) ==
  /\ pc[p] = "idle"
  /\ pc' = [pc EXCEPT ![p] = "rl"]
  /\ curlen' = 0
  /\ position' = 0
  /\ UNCHANGED <<kvars, info, argv, cmd_head, cmd_lock, lock, regvars, parvars,
                 complvars, output, history, histposition, tmp>>

\* _getc returns the byte c of Keys
rl_char(p, c) ==
  /\ pc[p] = "rl"
  /\ rl_apply(p, ed_char(EdState, c))
  /\ UNCHANGED <<kvars, info, argv, cmd_head, cmd_lock, lock, regvars, parvars,
                 complvars>>

\* _getc returns '\b'
rl_backspace(p) ==
  /\ pc[p] = "rl"
  /\ rl_apply(p, ed_backspace(EdState))
  /\ UNCHANGED <<kvars, info, argv, cmd_head, cmd_lock, lock, regvars, parvars,
                 complvars>>

\* _getc returns '\t'; cmdtab_compl takes and releases cmd_lock
rl_tab(p) ==
  /\ pc[p] = "rl"
  /\ cmd_lock = Free
  /\ \E r \in ed_tab(EdState, cmd_head) : rl_apply(p, r)
  /\ UNCHANGED <<kvars, info, argv, cmd_head, cmd_lock, lock, regvars, parvars,
                 complvars>>

\* _getc returns ESC, then mod, then c (then third)
rl_escape(p, mod, c, third) ==
  /\ pc[p] = "rl"
  /\ rl_apply(p, ed_escape(EdState, mod, c, third))
  /\ UNCHANGED <<kvars, info, argv, cmd_head, cmd_lock, lock, regvars, parvars,
                 complvars>>

\* _getc returns '\n': clever_readline returns current to kconsole
rl_enter(p) ==
  /\ pc[p] = "rl"
  /\ LET r == ed_enter(EdState)
     IN IF r.ok /\ mem_strlen(r.mem, current(EdState), 0) # Wild
        THEN /\ history' = r.mem
             /\ histposition' = r.hp
             /\ cmdline' = [cmdline EXCEPT
                              ![p] = line_of(r.mem, current(EdState))]
             /\ pc' = [pc EXCEPT ![p] = "rl_ret"]
        ELSE /\ pc' = [pc EXCEPT ![p] = "rl_undefined"]
             /\ UNCHANGED <<history, histposition, cmdline>>
  /\ UNCHANGED <<kvars, info, argv, cmd_head, cmd_lock, lock, regvars, start, end, i,
                 error, cmd_info, report, lookups, complvars, output, curlen,
                 position, tmp>>

\* kconsole has the line
rl_ret(p) ==
  /\ pc[p] = "rl_ret"
  /\ Return(p)
  /\ curlen' = 0
  /\ position' = 0
  /\ UNCHANGED <<kvars, info, argv, cmd_head, cmd_lock, lock, output, history,
                 histposition, tmp>>

Readline(p) ==
  \/ rl_call(p)
  \/ \E c \in Keys : rl_char(p, c)
  \/ rl_backspace(p)
  \/ rl_tab(p)
  \/ \E s \in EscSeqs : rl_escape(p, s[1], s[2], s[3])
  \/ rl_enter(p)
  \/ rl_ret(p)

\* no line has been edited yet
Booting ==
  /\ \A k \in 1..Len(history) : history[k] = NUL
  /\ histposition = 0
  /\ tmp = <<>>

\* the structures are registered while the kernel boots; then the kconsole
\* thread reads lines
EditNext ==
  \/ Booting /\ Register(kconsole_thread)
  \/ Readline(kconsole_thread)

\* the bytes _getc may return in the sessions of TabSpec: Keys and '*'
SigilKeys == Keys \cup {42}

\* the escape sequences of TabSpec: those that do not change the row
TabEscs == { s \in EscSeqs : s[2] \notin {65, 66} }

\* the first session after boot, in which a word may begin with '*'
TabNext ==
  \/ Booting /\ Register(kconsole_thread)
  \/ rl_call(kconsole_thread)
  \/ \E c \in SigilKeys : rl_char(kconsole_thread, c)
  \/ rl_backspace(kconsole_thread)
  \/ rl_tab(kconsole_thread)
  \/ \E s \in TabEscs : rl_escape(kconsole_thread, s[1], s[2], s[3])

\* the structures are named "d" and "du" in turn
EditInit ==
  /\ info = [c \in Cmds |-> IF c % 2 = 1
                             THEN [name |-> Name_d, argc |-> 0,
                                   argtype |-> <<>>, arglen |-> <<>>]
                             ELSE [name |-> Name_du, argc |-> 1,
                                   argtype |-> <<ARG_TYPE_INT>>,
                                   arglen |-> <<0>>]]
  /\ InitState

EditSpec == EditInit /\ [][EditNext]_vars

TabSpec == EditInit /\ [][TabNext]_vars

(* ------------------------------------------------------------------ *)
(* cmdtab_compl run by one context, with no registration meanwhile.    *)
(* ------------------------------------------------------------------ *)

\* names of which one continues another or two part ways: "d", "du",
\* "duu", "dud"
ComplNames ==
  { Name_d, Name_du, <<100, 117, 117>>, <<100, 117, 100>> }

ComplTemplates ==
  { [name |-> n, argc |-> 0, argtype |-> <<>>, arglen |-> <<>>] :
      n \in ComplNames }

\* prefixes handed to cmdtab_compl: "", "d", "du", "u"
ComplPrefixes == { <<>>, Name_d, Name_du, <<117>> }

ComplInit ==
  /\ info \in [Cmds -> ComplTemplates]
  /\ InitState

ComplNext ==
  \/ Register(kconsole_thread)
  \/ \E nm \in ComplPrefixes : cmdtab_compl(kconsole_thread, nm)
  \/ compl1_lock(kconsole_thread)
  \/ compl1_scan(kconsole_thread)
  \/ compl1_got(kconsole_thread)
  \/ compl2_lock(kconsole_thread)
  \/ compl2_scan(kconsole_thread)
  \/ compl2_got(kconsole_thread)
  \/ compl_ret(kconsole_thread)

ComplSpec == ComplInit /\ [][ComplNext]_vars

(* ------------------------------------------------------------------ *)
(* kconsole: entry and the dispatch loop.  The line clever_readline    *)
(* returns is drawn from DispatchLines.                                *)
(* ------------------------------------------------------------------ *)

\* "exit"
Name_exit == <<101, 120, 105, 116>>

\* the lines clever_readline returns: "", "exit", "exi", "exit ", "exitd",
\* "d", "du" (an argument is missing), "du 7", "u" (no such command)
DispatchLines ==
  { <<>>, Name_exit, <<101, 120, 105>>, <<101, 120, 105, 116, 32>>,
    <<101, 120, 105, 116, 100>>, Name_d, Name_du, <<100, 117, 32, 55>>,
    <<117>> }

\* mutant of k_exit: "exit" leaves the loop whatever kcon is
k_exit_any_mode(kc, l) ==
  strlen(l) = 4 /\ strncmp(l, Name_exit, 4) = 0

\* mutant of k_exit: the length of the line is not compared
k_exit_prefix(kc, l) ==
  (~kc) /\ strncmp(l, Name_exit, 4) = 0

\* (!kcon) && (len == 4) && (strncmp(cmdline, "exit", 4) == 0)
k_exit(kc, l) ==
  (~kc) /\ strlen(l) = 4 /\ strncmp(l, Name_exit, 4) = 0

\* the context p calls kconsole(prompt, msg, kc): without an input device
\* it returns; with kcon it waits for a key; then the loop begins
kconsole(p, kc) ==
  /\ pc[p] = "out"
  /\ kcon' = [kcon EXCEPT ![p] = kc]
  /\ pc' = [pc EXCEPT ![p] = IF ~stdin THEN "k_returned"
                             ELSE IF kc THEN "k_getc" ELSE "idle"]
  /\ UNCHANGED <<stdin, edvars, info, argv, cmd_head, cmd_lock, lock, regvars,
                 parvars, complvars, output>>

\* _getc(stdin) of line 487 returns
k_getc(p) ==
  /\ pc[p] = "k_getc"
  /\ pc' = [pc EXCEPT ![p] = "idle"]
  /\ UNCHANGED <<kvars, edvars, info, argv, cmd_head, cmd_lock, lock, regvars,
                 parvars, complvars, output>>

\* clever_readline returns the line l: an empty line is skipped, "exit"
\* breaks the loop and kconsole returns, any other line is parsed
k_line(p, l) ==
  /\ pc[p] = "idle"
  /\ IF strlen(l) = 0
     THEN UNCHANGED vars
     ELSE IF k_exit(kcon[p], l)
          THEN /\ pc' = [pc EXCEPT ![p] = "k_returned"]
               /\ cmdline' = [cmdline EXCEPT ![p] = l]
               /\ UNCHANGED <<kvars, edvars, info, argv, cmd_head, cmd_lock,
                              lock, regvars, start, end, i, error, cmd_info,
                              report, lookups, complvars, output>>
          ELSE parse_cmdline(p, l)

\* kconsole_thread passes kcon = true; another caller passes either value
KconOf(p) == IF p = kconsole_thread THEN {TRUE} ELSE BOOLEAN

Dispatch(p) ==
  \/ \E kc \in KconOf(p) : kconsole(p, kc)
  \/ k_getc(p)
  \/ \E l \in DispatchLines : k_line(p, l)
  \/ par_lock(p)
  \/ par_lockhlp(p)
  \/ par_cmp(p)
  \/ par_arg(p)
  \/ par_end(p)
  \/ k_check(p)
  \/ k_func(p)

DispatchNext == \E p \in Procs : Register(p) \/ Dispatch(p)

\* no context has called kconsole; there may be no input device
DispatchInit ==
  /\ info = [c \in Cmds |-> IF c % 2 = 1
                             THEN [name |-> Name_d, argc |-> 0,
                                   argtype |-> <<>>, arglen |-> <<>>]
                             ELSE [name |-> Name_du, argc |-> 1,
                                   argtype |-> <<ARG_TYPE_INT>>,
                                   arglen |-> <<0>>]]
  /\ pc = [p \in Procs |-> "out"]
  /\ stdin \in BOOLEAN
  /\ InitVars

DispatchSpec == DispatchInit /\ [][DispatchNext]_vars

(* ------------------------------------------------------------------ *)
(* Properties.                                                         *)
(* ------------------------------------------------------------------ *)

\* the descriptor locks held by the context p
HeldDesc(p) == { c \in Cmds : lock[c] = p }

\* p holds cmd_lock or a descriptor lock
HoldsAny(p) == cmd_lock = p \/ HeldDesc(p) # {}

\* the first token of the line parse_cmdline is looking up
Token(p) == SubSeq(cmdline[p], start[p] + 1, end[p] + 1)

HasSpace(s) == \E k \in 1..Len(s) : isspace(s[k])

\* positions of cmd_register between taking cmd_lock and its return
RegScanPcs == {"reg_lock", "reg_lock1", "reg_lock2", "reg_cmp"}

\* p takes a step of the scan of cmd_register
RegScanStep(p) == pc[p] \in RegScanPcs /\ pc'[p] # pc[p]

\* p takes a step of the lookup of parse_cmdline
ParLookupStep(p) == pc[p] \in {"par_lock", "par_cmp"} /\ pc'[p] # pc[p]

\* the names agree on the first k bytes, k the length of the shorter
PrefixEqual(a, b) == strncmp(a, b, min(strlen(a), strlen(b))) = 0

\* C1: a cmd_register of a structure that is not linked and whose name differs
\* from every linked name succeeds, and the exact lookup of parse_cmdline, for
\* a first token equal to the name of a linked structure (names without
\* whitespace), ends at the structure linked under that name, never at
\* another one and never at "Unknown command."
C1_RegisteredNamesAreFound ==
  [][\A p \in Procs :
       /\ (RegScanStep(p) /\ pc'[p] = "reg_ret" /\ ret'[p] = 0)
            => \/ cmd[p] \in Linked(cmd_head)
               \/ \E h \in Linked(cmd_head) : info[h].name = info[cmd[p]].name
       /\ (ParLookupStep(p) /\ \A h \in Linked(cmd_head) : ~HasSpace(info[h].name))
            => /\ pc'[p] = "par_args" =>
                    /\ cmd'[p] \in Linked(cmd_head)
                    /\ info[cmd'[p]].name = Token(p)
               /\ pc'[p] = "k_check" =>
                    \A h \in Linked(cmd_head) : info[h].name # Token(p)
    ]_vars

\* C1 witness: two structures with different names are linked and the lookup
\* has matched the line's first token to the second one
C1_Witness ==
  \E p \in Procs :
    /\ Len(cmd_head) = 2
    /\ pc[p] = "par_args"
    /\ cmd[p] = cmd_head[2]
    /\ info[cmd_head[1]].name # info[cmd_head[2]].name
    /\ Token(p) = info[cmd[p]].name

\* C2: a cmd_register whose structure is already linked when it takes cmd_lock
\* never changes the list and returns 0
C2_ReRegisterFails ==
  [][\A p \in Procs :
       (RegScanStep(p) /\ cmd[p] \in Linked(cmd_head))
         => /\ cmd_head' = cmd_head
            /\ pc'[p] # "reg_added"
            /\ pc'[p] = "reg_ret" => ret'[p] = 0
    ]_vars

\* C2 witness: a cmd_register of a linked structure has returned 0 after
\* walking past another linked structure
C2_Witness ==
  \E p \in Procs :
    /\ pc[p] = "reg_ret"
    /\ ret[p] = 0
    /\ Len(cmd_head) = 2
    /\ cmd[p] = cmd_head[2]

\* C3 as stated: cmd_register never links a structure whose name agrees with
\* a linked structure's name on the first k bytes, k the shorter length
C3_PrefixEqualRejected ==
  \A p \in Procs :
    pc[p] = "reg_added" =>
      \A k \in 1..(Len(cmd_head) - 1) :
        ~PrefixEqual(info[cmd_head[k]].name, info[cmd[p]].name)

\* C3 amended: a cmd_register of a structure that is not linked returns 0
\* exactly when a linked structure has the same name, byte for byte; names
\* that only agree on the length of the shorter one are both linked
C3_EqualNameRejected ==
  [][\A p \in Procs :
       (RegScanStep(p) /\ cmd[p] \notin Linked(cmd_head))
         => /\ pc'[p] = "reg_ret" =>
                 /\ ret'[p] = 0
                 /\ cmd_head' = cmd_head
                 /\ \E h \in Linked(cmd_head) : info[h].name = info[cmd[p]].name
            /\ pc'[p] = "reg_added" =>
                 /\ cmd_head' = Append(cmd_head, cmd[p])
                 /\ \A h \in Linked(cmd_head) : info[h].name # info[cmd[p]].name
    ]_vars

\* C3 witness: a structure has been linked although its name and a linked
\* structure's name agree on the length of the shorter one
C3_Witness ==
  \E p \in Procs :
    /\ pc[p] = "reg_added"
    /\ Len(cmd_head) = 2
    /\ cmd_head[2] = cmd[p]
    /\ PrefixEqual(info[cmd_head[1]].name, info[cmd[p]].name)

\* C4: no two links of the list are the same structure or carry equal names
C4_UniqueNames ==
  \A j, k \in 1..Len(cmd_head) :
    j # k => /\ cmd_head[j] # cmd_head[k]
             /\ info[cmd_head[j]].name # info[cmd_head[k]].name

\* C4 witness: two contexts have registered two structures of the same name
\* at the same time; one is linked, the other was refused
C4_Witness ==
  \E p, q \in Procs :
    /\ p # q
    /\ pc[p] = "reg_ret" /\ ret[p] = 0
    /\ pc[q] = "reg_ret" /\ ret[q] = 1
    /\ cmd[p] # cmd[q]
    /\ info[cmd[p]].name = info[cmd[q]].name

\* C5: a context about to take cmd_lock holds no descriptor lock, and a
\* context about to take a descriptor lock holds cmd_lock
C5_RegistryLockFirst ==
  \A p \in Procs :
    /\ pc[p] \in {"reg_lock", "par_lock", "compl1_lock", "compl2_lock"}
         => HeldDesc(p) = {}
    /\ pc[p] \in {"reg_lock1", "reg_lock2", "par_lockhlp"} => cmd_lock = p

\* C5 witness: a context waits for cmd_lock right after a parse that had
\* locked a descriptor, while the other context holds a descriptor lock
C5_Witness ==
  \E p, q \in Procs :
    /\ p # q
    /\ pc[p] \in {"reg_lock", "par_lock", "compl1_lock"}
    /\ pc[q] = "par_args"
    /\ lock[cmd[q]] = q
    /\ argv[cmd[q]] # ArgInit(info[cmd[q]])

\* C6: a context that takes a descriptor lock while it holds another one
\* holds one of a lower address
C6_LowerAddressFirst ==
  [][\A p \in Procs : \A c \in Cmds :
       (lock'[c] = p /\ lock[c] # p) => \A d \in HeldDesc(p) : d < c
    ]_vars

\* C6 witness: the duplicate check holds both locks and the new structure
\* is the one of the lower address
C6_Witness ==
  \E p \in Procs :
    /\ pc[p] = "reg_cmp"
    /\ cmd[p] < cur[p]
    /\ HeldDesc(p) = {cmd[p], cur[p]}

\* C7 as stated: under weak fairness on each context every started
\* cmd_register, parse and completion completes
C7_EveryOperationCompletes ==
  \A p \in Procs : (pc[p] # "idle") ~> (pc[p] = "idle")

\* C7 amended: every started operation completes when, besides, a context
\* spinning for cmd_lock is not passed over for ever by contexts that take
\* the lock again and again
C7_CompletesUnlessStarved ==
  (\A p \in Procs : SF_vars(TakeCmdLock(p))) => C7_EveryOperationCompletes

\* C7 witness: a cmd_register waits for the lock of a descriptor that a
\* parse in the other context holds
C7_Witness ==
  \E p, q \in Procs :
    /\ pc[p] \in {"reg_lock1", "reg_lock2"}
    /\ pc[q] = "par_args"
    /\ lock[cmd[q]] = q
    /\ \/ pc[p] = "reg_lock1" /\ reg_order(cur[p], cmd[p])[1] = cmd[q]
       \/ pc[p] = "reg_lock2" /\ reg_order(cur[p], cmd[p])[2] = cmd[q]

\* C8 as stated: from the return of parse_cmdline with a descriptor until the
\* handler has returned, the calling context holds that descriptor's lock
C8_LockHeldUntilDispatched ==
  \A p \in Procs :
    (pc[p] \in {"k_check", "k_func"} /\ cmd_info[p] # NULL)
      => lock[cmd_info[p]] = p

\* C9 as stated: the handler of one descriptor never runs in two contexts at
\* once, and no context converts arguments into a descriptor's storage while
\* its handler runs in another context
C9_SameCommandSerialized ==
  \A p, q \in Procs :
    (p # q /\ pc[q] = "k_func")
      => /\ ~(pc[p] = "k_func" /\ cmd_info[p] = cmd_info[q])
         /\ ~(pc[p] = "par_args" /\ cmd[p] = cmd_info[q])

\* C10: when parse_cmdline has returned NULL its caller holds no lock
C10_FailureReleasesLocks ==
  \A p \in Procs :
    (pc[p] = "k_check" /\ cmd_info[p] = NULL) => ~HoldsAny(p)

\* C10 witness: parse_cmdline has returned NULL after it had locked the
\* matched descriptor and a conversion failed
C10_Witness ==
  \E p \in Procs :
    /\ pc[p] = "k_check"
    /\ cmd_info[p] = NULL
    /\ cmd[p] # NULL
    /\ error[p] = 1

(* ------------------------------------------------------------------ *)
(* Properties of the parser (ParseSpec).                               *)
(* ------------------------------------------------------------------ *)

\* the 1-based positions at which a token of the line begins
TokStarts(line) ==
  { k \in 1..Len(line) :
      ~isspace(line[k]) /\ (k = 1 \/ isspace(line[k - 1])) }

\* the position at which the token beginning at k ends
TokEnd(line, k) ==
  CHOOSE j \in k..Len(line) :
    /\ \A m \in k..j : ~isspace(line[m])
    /\ j = Len(line) \/ isspace(line[j + 1])

\* the number of tokens of the line
NTokens(line) == Cardinality(TokStarts(line))

\* the n-th token of the line
TokenN(line, n) ==
  LET k == CHOOSE k \in TokStarts(line) :
             Cardinality({ m \in TokStarts(line) : m < k }) = n - 1
  IN SubSeq(line, k, TokEnd(line, k))

Last(q) == q[Len(q)]

\* the messages of a failed conversion
ConvFailures ==
  { "Symbol not found.", "Duplicate symbol.", "No symbol information available.",
    "Unrecognized variable argument.", "invalid argument type" }

\* a conversion of the parse in progress has printed a failure
ConvFailed(p) == \E k \in 1..Len(report[p]) : report[p][k] \in ConvFailures

\* parse_cmdline has returned to kconsole, or its handler is running
Parsed(p) == pc[p] \in {"k_check", "k_func"}

\* C11: after a successful parse the buffer of a string argument of capacity
\* C holds the first min(L, C-1) bytes of its L-byte token and then a NUL,
\* and no byte at an index >= C has been written ("d du u7" against two
\* string arguments of capacity 3 leaves "du" and "u7").
C11_StringArgumentStored ==
  LET p == kconsole_thread
  IN (pc[p] = "k_check" /\ cmd_info[p] # NULL) =>
       \A k \in 1..info[cmd_info[p]].argc :
         info[cmd_info[p]].argtype[k] = ARG_TYPE_STRING =>
           LET T == TokenN(cmdline[p], k + 1)
               n == min(Len(T), info[cmd_info[p]].arglen[k] - 1)
               a == argv[cmd_info[p]][k]
           IN /\ SubSeq(a.buffer, 1, n) = SubSeq(T, 1, n)
              /\ a.buffer[n + 1] = NUL
              /\ ~a.past

\* "d duu u" has been parsed into two buffers of capacity 3: the first
\* holds "du", the token cut to two bytes
C11_Witness ==
  LET p == kconsole_thread
  IN /\ pc[p] = "k_check"
     /\ cmd_info[p] # NULL
     /\ cmdline[p] = <<100, 32, 100, 117, 117, 32, 117>>
     /\ argv[cmd_info[p]][1].buffer = <<100, 117, NUL>>
     /\ argv[cmd_info[p]][2].buffer[1] = 117
     /\ argv[cmd_info[p]][2].buffer[2] = NUL

\* C12: when the line has fewer tokens after the command name than the
\* matched command declares arguments, "Too few arguments." is the last
\* thing printed, parse_cmdline returns NULL and the handler is not called.
C12_TooFewArguments ==
  LET p == kconsole_thread
  IN (/\ Parsed(p)
      /\ cmd[p] # NULL
      /\ NTokens(cmdline[p]) - 1 < info[cmd[p]].argc)
     => /\ pc[p] = "k_check"
        /\ cmd_info[p] = NULL
        /\ report[p] # <<>>
        /\ Last(report[p]) = "Too few arguments."

\* "d 7" against a command with two arguments
C12_Witness ==
  LET p == kconsole_thread
  IN /\ pc[p] = "k_check"
     /\ cmd[p] # NULL
     /\ info[cmd[p]].argc = 2
     /\ NTokens(cmdline[p]) = 2
     /\ report[p] = <<"Too few arguments.">>

\* C13: when every declared argument has converted and the line has further
\* tokens, "Too many arguments." is printed, parse_cmdline returns NULL and
\* the handler is not called.
C13_TooManyArguments ==
  LET p == kconsole_thread
  IN (/\ Parsed(p)
      /\ cmd[p] # NULL
      /\ NTokens(cmdline[p]) - 1 > info[cmd[p]].argc
      /\ ~ConvFailed(p))
     => /\ pc[p] = "k_check"
        /\ cmd_info[p] = NULL
        /\ report[p] = <<"Too many arguments.">>

\* "d 7 7 7" against a command with two integer arguments
C13_Witness ==
  LET p == kconsole_thread
  IN /\ pc[p] = "k_check"
     /\ cmd[p] # NULL
     /\ info[cmd[p]].argc = 2
     /\ NTokens(cmdline[p]) = 4
     /\ argv[cmd[p]][2].intval = 7
     /\ report[p] = <<"Too many arguments.">>

\* C14: an integer argument naming a symbol that symtab_addr_lookup
\* resolves ("&name", "name" or "*name", lookup result EOK) converts
\* successfully; stated for the first argument, right after its conversion.
C14_ResolvedSymbolConverts ==
  LET p == kconsole_thread
  IN (/\ pc[p] = "par_args"
      /\ i[p] = 1
      /\ info[cmd[p]].argtype[1] = ARG_TYPE_INT
      /\ lookups[p] = <<"EOK">>)
     => error[p] = 0

\* C15: when the conversion of any declared argument has failed,
\* parse_cmdline returns NULL and the handler is not called.
C15_AnyFailureFailsParse ==
  LET p == kconsole_thread
  IN (Parsed(p) /\ ConvFailed(p)) => (pc[p] = "k_check" /\ cmd_info[p] = NULL)

\* the token parse_cmdline has just converted is an integer argument
\* written "&name", name not beginning with a digit
AddrOfName(p) ==
  /\ cmd[p] # NULL
  /\ i[p] >= 1
  /\ info[cmd[p]].argtype[i[p]] = ARG_TYPE_INT
  /\ CharAt(cmdline[p], start[p]) = 38
  /\ ~isdigit(CharAt(cmdline[p], start[p] + 1))

\* C16: "&name" whose lookup returns ENOENT fails its conversion with
\* "Symbol not found."; when it is the only declared argument
\* parse_cmdline returns NULL and the handler is not called.
C16_UnknownSymbolFails ==
  LET p == kconsole_thread
  IN /\ (/\ pc[p] = "par_args"
         /\ AddrOfName(p)
         /\ lookups[p] # <<>>
         /\ Last(lookups[p]) = "ENOENT")
        => (error[p] = 1 /\ Last(report[p]) = "Symbol not found.")
     /\ (/\ Parsed(p)
         /\ AddrOfName(p)
         /\ info[cmd[p]].argc = 1
         /\ lookups[p] = <<"ENOENT">>)
        => /\ pc[p] = "k_check"
           /\ cmd_info[p] = NULL
           /\ report[p] = <<"Symbol not found.">>

\* "du &u" against a command with one integer argument, u not in the
\* symbol table: parse_cmdline has returned NULL
C16_Witness ==
  LET p == kconsole_thread
  IN /\ pc[p] = "k_check"
     /\ cmdline[p] = <<100, 117, 32, 38, 117>>
     /\ cmd[p] # NULL
     /\ info[cmd[p]].argtype = <<ARG_TYPE_INT>>
     /\ lookups[p] = <<"ENOENT">>
     /\ report[p] = <<"Symbol not found.">>
     /\ cmd_info[p] = NULL

\* the longest prefix of decimal digits of a token
DigitPrefix(T) ==
  LET d == CHOOSE d \in 0..Len(T) :
             /\ \A k \in 1..d : isdigit(T[k])
             /\ d = Len(T) \/ ~isdigit(T[d + 1])
  IN SubSeq(T, 1, d)

RECURSIVE DecValue(_)
\* the integer a sequence of decimal digits denotes
DecValue(D) ==
  IF D = <<>> THEN 0
  ELSE 10 * DecValue(SubSeq(D, 1, Len(D) - 1)) + (D[Len(D)] - 48)

\* C17: the conversion of an integer argument whose token begins with a
\* decimal digit succeeds with the integer its leading digits denote, and
\* makes no symbol lookup.
C17_DigitsConvertDirectly ==
  [][LET p == kconsole_thread
     IN (/\ pc[p] = "par_args"
         /\ i'[p] = i[p] + 1
         /\ info[cmd[p]].argtype[i'[p]] = ARG_TYPE_INT
         /\ isdigit(CharAt(cmdline[p], start'[p])))
        => /\ error'[p] = 0
           /\ lookups' = lookups
           /\ argv'[cmd[p]][i'[p]].intval =
                DecValue(DigitPrefix(SubSeq(cmdline[p], start'[p] + 1,
                                            end'[p] + 1)))]_vars

\* "du 77" has been converted into 77 without a lookup
C17_Witness ==
  LET p == kconsole_thread
  IN /\ pc[p] = "par_args"
     /\ i[p] = 1
     /\ cmdline[p] = <<100, 117, 32, 55, 55>>
     /\ info[cmd[p]].argtype = <<ARG_TYPE_INT>>
     /\ argv[cmd[p]][1].intval = 77
     /\ error[p] = 0
     /\ lookups[p] = <<>>

\* the bytes of a buffer before its first NUL
CStr(buf) ==
  LET n == CHOOSE n \in 0..Len(buf) :
             /\ \A k \in 1..n : buf[k] # NUL
             /\ n = Len(buf) \/ buf[n + 1] = NUL
  IN SubSeq(buf, 1, n)

\* C18: the conversion of a variable argument whose token begins and ends
\* with '"' (length >= 2) stores the token without its two quotes, cut to
\* capacity - 1 bytes, and records the type string.
C18_QuotesStripped ==
  [][LET p == kconsole_thread
         T == SubSeq(cmdline[p], start'[p] + 1, end'[p] + 1)
     IN (/\ pc[p] = "par_args"
         /\ i'[p] = i[p] + 1
         /\ info[cmd[p]].argtype[i'[p]] = ARG_TYPE_VAR
         /\ Len(T) >= 2
         /\ T[1] = 34
         /\ T[Len(T)] = 34)
        => LET a == argv'[cmd[p]][i'[p]]
               n == min(Len(T) - 2, info[cmd[p]].arglen[i'[p]] - 1)
           IN /\ error'[p] = 0
              /\ a.vartype = ARG_TYPE_STRING
              /\ CStr(a.buffer) = SubSeq(T, 2, n + 1)
              /\ ~a.past]_vars

\* the quoted token "u" of the line du "u" has been stored as u
C18_Witness ==
  LET p == kconsole_thread
  IN /\ pc[p] = "par_args"
     /\ i[p] = 1
     /\ cmdline[p] = <<100, 117, 32, 34, 117, 34>>
     /\ info[cmd[p]].argtype = <<ARG_TYPE_VAR>>
     /\ argv[cmd[p]][1].vartype = ARG_TYPE_STRING
     /\ CStr(argv[cmd[p]][1].buffer) = <<117>>

\* C19: the lookup of parse_cmdline matches a structure exactly when the
\* first token of the line equals its name byte for byte, whatever follows
\* the token: the structure matched carries the token as its name, and
\* "Unknown command." means no linked structure does.
C19_LookupMatchesExactToken ==
  LET p == kconsole_thread
  IN /\ (pc[p] = "par_args" /\ i[p] = 0) => info[cmd[p]].name = Token(p)
     /\ (pc[p] = "k_check" /\ report[p] = <<"Unknown command.">>)
        => \A c \in Linked(cmd_head) : info[c].name # Token(p)

(* ------------------------------------------------------------------ *)
(* Properties of the line editor (EditSpec).                           *)
(* ------------------------------------------------------------------ *)

\* C20: in every state of a session of clever_readline, whatever bytes it
\* has read, 0 <= position <= curlen <= MAX_CMDLINE.
C20_CaretWithinLine ==
  pc[kconsole_thread] = "rl" =>
    (0 <= position /\ position <= curlen /\ curlen <= MAX_CMDLINE)

\* the bytes 0..curlen-1 of the line the editor state e holds
Content(e) == [j \in 1..e.curlen |-> peek(e.mem, current(e) + j - 1)]

RECURSIVE ed_chars(_, _, _)
\* the editor state after the bytes bs[k], bs[k+1], ... have been read
ed_chars(e, bs, k) ==
  IF k > Len(bs) \/ ~e.ok THEN e ELSE ed_chars(ed_char(e, bs[k]), bs, k + 1)

RECURSIVE ed_backspaces(_, _)
\* the editor state after k bytes '\b' have been read
ed_backspaces(e, k) ==
  IF k = 0 \/ ~e.ok THEN e ELSE ed_backspaces(ed_backspace(e), k - 1)

\* the editor state r holds the line, the length and the caret of e
SameLine(e, r) ==
  /\ r.ok
  /\ r.curlen = e.curlen
  /\ r.position = e.position
  /\ Content(r) = Content(e)

\* C21: in every state of a session whose caret is within the line, k bytes
\* that the line has room for, followed by k backspaces, leave the bytes
\* 0..curlen-1 of the line, curlen and position as they were.
C21_InsertThenBackspace ==
  (pc[kconsole_thread] = "rl" /\ 0 <= position /\ position <= curlen) =>
    \A k \in 1..MAX_CMDLINE :
      curlen + k <= MAX_CMDLINE =>
        \A bs \in [1..k -> Keys] :
          SameLine(EdState, ed_backspaces(ed_chars(EdState, bs, 1), k))

\* the non-empty lines that can be typed: 1..MAX_CMDLINE bytes of Keys
TypedLines == UNION { [1..n -> Keys] : n \in 1..MAX_CMDLINE }

\* the editor state as a new call of clever_readline finds it
ed_begin(e) == [e EXCEPT !.curlen = 0, !.position = 0]

\* a whole session: the bytes of bs, then '\n'
ed_submit(e, bs) ==
  LET t == ed_chars(ed_begin(e), bs, 1)
  IN IF t.ok THEN ed_enter(t) ELSE t

RECURSIVE ed_submits(_, _, _)
\* the sessions that submit the lines ls[k], ls[k+1], ...
ed_submits(e, ls, k) ==
  IF k > Len(ls) \/ ~e.ok THEN e ELSE ed_submits(ed_submit(e, ls[k]), ls, k + 1)

RECURSIVE ed_ups(_, _)
\* the editor state after k times ESC [ A
ed_ups(e, k) ==
  IF k = 0 \/ ~e.ok THEN e ELSE ed_ups(ed_updown(e, 65), k - 1)

\* C22: between two sessions, whatever the ring holds: after N lines
\* (1 <= N <= KCONSOLE_HISTORY) typed and submitted one after the other, i
\* times cursor-up in the next session (1 <= i <= N) makes the i-th most
\* recent of them the current line, position and curlen at its end; and
\* cursor-up in row 0 makes row KCONSOLE_HISTORY - 1 current.
C22_UpRecallsSubmitted ==
  pc[kconsole_thread] = "idle" =>
    /\ histposition = 0 =>
         ed_updown(ed_begin(EdState), 65).hp = KCONSOLE_HISTORY - 1
    /\ \A N \in 1..KCONSOLE_HISTORY :
         \A ls \in [1..N -> TypedLines] :
           \A k \in 1..N :
             LET e == ed_ups(ed_begin(ed_submits(EdState, ls, 1)), k)
             IN /\ e.ok
                /\ e.curlen = Len(ls[N - k + 1])
                /\ e.position = e.curlen
                /\ Content(e) = ls[N - k + 1]

\* the string a followed by the string b
Cat(a, b) == a \o b

\* C23: in every state of a session with the caret at the end of the line:
\* when a tab finds exactly one match and the line has room for the hint and
\* a blank, the hint and one blank are appended and the caret is behind the
\* blank; for the first word the hint is the rest of a registered name.
C23_UniqueMatchAppended ==
  (pc[kconsole_thread] = "rl" /\ 0 <= position /\ position = curlen
     /\ cmd_lock = Free) =>
    \A r \in ed_tab(EdState, cmd_head) :
      (r.found = 1 /\ curlen + Len(r.tmp) + 1 <= MAX_CMDLINE) =>
        /\ r.ok
        /\ r.curlen = curlen + Len(r.tmp) + 1
        /\ r.position = r.curlen
        /\ Content(r) = Cat(Cat(Content(EdState), r.tmp), <<32>>)
        /\ (\A j \in 1..curlen : Content(EdState)[j] # 32) =>
             \E c \in Linked(cmd_head) :
               info[c].name = Cat(Content(EdState), r.tmp)

\* the bytes 0..n-1 of the row that is current in the editor state e
RowBytes(e, n) == [j \in 1..n |-> peek(e.mem, current(e) + j - 1)]

\* the name nm begins with the bytes of w
StartsWith(nm, w) == Len(nm) >= Len(w) /\ SubSeq(nm, 1, Len(w)) = w

\* the linked structures whose name begins with w
Matching(w) == { c \in Linked(cmd_head) : StartsWith(info[c].name, w) }

\* the index at which the word under the caret ends: the nearest blank at or
\* right of the caret, or curlen
CaretWordEnd ==
  CHOOSE j \in position..curlen :
    /\ j = curlen \/ peek(history, current(EdState) + j) = 32
    /\ \A k \in position..(j - 1) : peek(history, current(EdState) + k) # 32

\* the index at which that word begins: behind the nearest blank left of its
\* end, or 0
CaretWordStart ==
  CHOOSE j \in 0..CaretWordEnd :
    /\ j = 0 \/ peek(history, current(EdState) + j - 1) = 32
    /\ \A k \in j..(CaretWordEnd - 1) : peek(history, current(EdState) + k) # 32

\* the word under the caret
CaretWord ==
  [j \in 1..(CaretWordEnd - CaretWordStart) |->
     peek(history, current(EdState) + CaretWordStart + j - 1)]

\* the names that begin with w have no common extension behind w
NoCommonExtension(w) ==
  \/ \E c \in Matching(w) : info[c].name = w
  \/ \E c, b \in Matching(w) :
       CharAt(info[c].name, Len(w)) # CharAt(info[b].name, Len(w))

\* a session is reading bytes, the caret is within the line and the line
\* within its row
Editing ==
  /\ pc[kconsole_thread] = "rl"
  /\ cmd_lock = Free
  /\ 0 <= position /\ position <= curlen /\ curlen <= MAX_CMDLINE

\* C24: in every state of a session: when the word under the caret is the
\* first of the line and more than one registered name begins with it, with
\* no common extension, a tab counts as many matches as names begin with the
\* word and leaves the bytes of the line and curlen as they were.
C24_AmbiguousLeavesLine ==
  (Editing /\ CaretWordStart = 0 /\ Cardinality(Matching(CaretWord)) > 1
     /\ NoCommonExtension(CaretWord)) =>
    \A r \in ed_tab(EdState, cmd_head) :
      /\ r.ok
      /\ r.found = Cardinality(Matching(CaretWord))
      /\ r.curlen = curlen
      /\ r.mem = history

\* C25: a kconsole entered with kcon = true while there is an input device
\* never returns, whatever lines it reads.
C25_KconNeverReturns ==
  \A p \in Procs : (kcon[p] /\ stdin) => pc[p] # "k_returned"

\* with kcon = true the line "exit" has been read and parsed as a command
C25_Witness ==
  \E p \in Procs :
    /\ kcon[p] /\ stdin
    /\ pc[p] = "k_check"
    /\ cmdline[p] = Name_exit

\* C26: with kcon = false, the line "exit" makes kconsole return straight
\* from the top of its loop, before any parsing and any handler, and a
\* kconsole that has an input device returns on no other line.
C26_ExitLeavesLoop ==
  [][\A p \in Procs :
      /\ (pc[p] = "idle" /\ ~kcon[p] /\ cmdline'[p] = Name_exit
            /\ cmdline[p] # Name_exit) =>
           (pc'[p] = "k_returned" /\ cmd_info'[p] = cmd_info[p]
              /\ report'[p] = report[p])
      /\ (pc'[p] = "k_returned" /\ pc[p] # "k_returned" /\ stdin) =>
           (pc[p] = "idle" /\ ~kcon[p] /\ cmdline'[p] = Name_exit)]_vars

\* a kconsole with kcon = false has returned on "exit"
C26_Witness ==
  \E p \in Procs :
    /\ ~kcon[p] /\ stdin
    /\ pc[p] = "k_returned"
    /\ cmdline[p] = Name_exit

\* C27: a handler is entered only from the test of what parse_cmdline
\* returned, with a descriptor and a line that is not empty; when it
\* returns, and when parse_cmdline returned NULL, the loop is at its top
\* again; and only a line that is not empty is parsed.
C27_HandlerOncePerLine ==
  [][\A p \in Procs :
      /\ (pc'[p] = "k_func" /\ pc[p] # "k_func") =>
           (pc[p] = "k_check" /\ cmd_info[p] # NULL
              /\ strlen(cmdline[p]) > 0)
      /\ (pc[p] = "k_func" /\ pc'[p] # "k_func") => pc'[p] = "idle"
      /\ (pc[p] = "k_check" /\ cmd_info[p] = NULL /\ pc'[p] # "k_check") =>
           pc'[p] = "idle"
      /\ (pc[p] = "idle" /\ pc'[p] \in {"par_lock", "k_check"}) =>
           strlen(cmdline'[p]) > 0]_vars

\* a handler is running for a parsed line
C27_Witness ==
  \E p \in Procs :
    /\ pc[p] = "k_func"
    /\ cmd_info[p] # NULL
    /\ kcon[p]

\* what the name of the structure c has behind its first n bytes
Extension(c, n) == StrFrom(info[c].name, n)

\* the longest string that the name of every structure of M has directly
\* behind its first n bytes
CommonExtension(M, n) ==
  LET c == CHOOSE c \in M : TRUE
      common(k) == \A b \in M : StartsWith(Extension(b, n),
                                            SubSeq(Extension(c, n), 1, k))
      k == CHOOSE k \in 0..Len(Extension(c, n)) :
             /\ common(k)
             /\ \A j \in (k + 1)..Len(Extension(c, n)) : ~common(j)
  IN SubSeq(Extension(c, n), 1, k)

\* C28: when cmdtab_compl returns, no structure having been registered
\* meanwhile, its value is the number of registered names that begin with
\* the prefix and, unless that is 0, the prefix has been replaced by the
\* longest string all those names have directly behind the prefix.
C28_CountAndCommonExtension ==
  [][(pc'[kconsole_thread] = "compl_ret" /\ pc[kconsole_thread] # "compl_ret") =>
       LET w == name[kconsole_thread]
       IN /\ ret'[kconsole_thread] = Cardinality(Matching(w))
          /\ Matching(w) # {} =>
               name'[kconsole_thread] = CommonExtension(Matching(w), Len(w))]_vars

\* cmdtab_compl has returned 2 and a hint that is not empty
C28_Witness ==
  /\ pc[kconsole_thread] = "compl_ret"
  /\ ret[kconsole_thread] = 2
  /\ name[kconsole_thread] # <<>>

\* the link at which the next scan of cmdtab_search_one by p begins
ScanFrom(p) ==
  IF startpos[p] = NULL THEN list_first(cmd_head) ELSE startpos[p]

\* the structures of which the next step of the context p reads or writes a
\* field other than the link: the name compared by the lookup, the storage
\* filled by the conversion, the names read by the completion scan, the
\* name and description it lists, the handler and storage used by the call
Accessed(p) ==
  IF pc[p] = "par_cmp" THEN {cur[p]}
  ELSE IF pc[p] \in {"par_arg", "par_end"} THEN {cmd[p]}
  ELSE IF pc[p] = "k_func" THEN {cmd_info[p]}
  ELSE IF pc[p] \in {"compl1_scan", "compl2_scan"}
       THEN {ScanFrom(p)} \ {HEAD}
  ELSE IF pc[p] \in {"compl1_got", "compl2_got"} THEN {startpos[p]}
  ELSE {}

\* C29: whenever a context is about to read or write a field of a linked
\* structure other than its link, it holds the lock of that structure.
C29_FieldsUnderOwnLock ==
  \A p \in Procs : \A c \in Accessed(p) : lock[c] = p

\* lines that leave room for their terminator in the row: fewer than
\* MAX_CMDLINE bytes of Keys, the empty line among them
ShortLines == UNION { [1..n -> Keys] : n \in 0..(MAX_CMDLINE - 1) }

\* a session: cursor-up ups times, then bs backspaces, then the bytes of
\* line, then '\n'
Sessions == [ups : 0..KCONSOLE_HISTORY, bs : 0..MAX_CMDLINE, line : ShortLines]

\* the editor state of the session s begun in e, when '\n' is read
ed_session(e, s) ==
  ed_chars(ed_backspaces(ed_ups(ed_begin(e), s.ups), s.bs), s.line, 1)

RECURSIVE Submissions(_, _, _, _)
\* the sessions ss[k], ss[k+1], ...: the editor state they leave and, added
\* to log, the lines they submitted that are not empty
Submissions(e, ss, k, log) ==
  IF k > Len(ss) \/ ~e.ok THEN [e |-> e, log |-> log]
  ELSE LET t == ed_session(e, ss[k])
       IN IF ~t.ok THEN [e |-> t, log |-> log]
          ELSE Submissions(ed_enter(t), ss, k + 1,
                           IF t.curlen > 0 THEN Append(log, Content(t))
                           ELSE log)

\* the strings in the rows of the ring
RingLines(e) ==
  { line_of(e.mem, r * MAX_CMDLINE) : r \in 0..(KCONSOLE_HISTORY - 1) }

\* the last n elements of the sequence q
LastOf(q, n) == { q[j] : j \in (Len(q) - n + 1)..Len(q) }

\* the longest run of sessions followed from the boot
MaxSessions == 3

\* C30: from the boot, after any sessions with cursor-up, backspaces and
\* typed bytes whose submitted lines are shorter than MAX_CMDLINE, every one
\* of the min(total, KCONSOLE_HISTORY) lines submitted last is the string of
\* a row of the ring.
C30_RingHoldsMostRecent ==
  (pc[kconsole_thread] = "idle" /\ Booting /\ cmd_head = <<>>) =>
    \A n \in 1..MaxSessions :
      \A ss \in [1..n -> Sessions] :
        LET r == Submissions(EdState, ss, 1, <<>>)
        IN (r.e.ok /\ \A j \in 1..Len(r.log) : Len(r.log[j]) < MAX_CMDLINE) =>
             LastOf(r.log, min(Len(r.log), KCONSOLE_HISTORY)) \subseteq
               RingLines(r.e)

\* C31: in every state of a session with the caret within the line, a tab
\* calls a completion and hands it the word under the caret: the bytes of
\* the line from behind the nearest blank left of the caret (or from the
\* start) up to the nearest blank at or right of it (or to curlen).
C31_PrefixIsCaretWord ==
  Editing =>
    \A r \in ed_tab(EdState, cmd_head) :
      r.engine # "none" /\ r.word = CaretWord

\* C32: in every state of a session with the caret within the line, a tab
\* calls cmdtab_compl when only blanks precede the word under the caret,
\* and symtab_compl when another word precedes it.
C32_FirstWordUsesRegistry ==
  Editing =>
    \A r \in ed_tab(EdState, cmd_head) :
      r.engine =
        IF \A k \in 0..(CaretWordStart - 1) :
             peek(history, current(EdState) + k) = 32
        THEN "cmdtab_compl" ELSE "symtab_compl"

\* C33: in every state of a session whose line holds MAX_CMDLINE bytes, a
\* byte of Keys leaves the array, curlen, position and all else the editor
\* keeps as they are, and the session goes on.
C33_FullLineIgnoresByte ==
  (pc[kconsole_thread] = "rl" /\ curlen = MAX_CMDLINE) =>
    \A c \in Keys : ed_char(EdState, c) = EdState

\* the row is full of typed bytes, the caret at its end
C33_Witness ==
  /\ pc[kconsole_thread] = "rl"
  /\ curlen = MAX_CMDLINE
  /\ position = curlen
  /\ \A j \in 1..MAX_CMDLINE : Content(EdState)[j] \in Keys
  /\ \E c \in Keys : ed_char(EdState, c) = EdState

\* the offsets of the row that is current
CurrentRow ==
  (histposition * MAX_CMDLINE)..(histposition * MAX_CMDLINE + MAX_CMDLINE - 1)

\* C34: no step of a session changes a byte of history outside the row that
\* is current, and none makes an access outside the array.
C34_WritesStayInRow ==
  [][pc[kconsole_thread] = "rl" =>
       /\ pc'[kconsole_thread] # "rl_undefined"
       /\ \A a \in 0..(Len(history) - 1) :
            a \notin CurrentRow => history'[a + 1] = history[a + 1]]_vars

\* the string stored in the row r of the array mem
RowLine(mem, r) == line_of(mem, r * MAX_CMDLINE)

\* C35: between two sessions, whatever the ring holds: a session of cursor-up
\* presses, typed bytes and backspaces that ends with curlen 0 and a newline
\* leaves the string of every row of the ring as the session found it.
C35_EmptyLineKeepsRing ==
  pc[kconsole_thread] = "idle" =>
    \A k \in 0..KCONSOLE_HISTORY : \A bs \in ShortLines :
      \A n \in 0..MAX_CMDLINE :
        LET t == ed_backspaces(
                   ed_chars(ed_ups(ed_begin(EdState), k), bs, 1), n)
            r == ed_enter(t)
        IN (t.ok /\ t.curlen = 0) =>
             /\ r.ok
             /\ \A row \in 0..(KCONSOLE_HISTORY - 1) :
                  RowLine(r.mem, row) = RowLine(history, row)

\* the context p is in the first loop of cmdtab_compl: one enumeration
Enumerating(p) == pc[p] \in {"compl1_lock", "compl1_scan", "compl1_got"}

\* cmdtab_search_one has just returned the descriptor c to p
Returned(p, c) == pc[p] = "compl1_got" /\ startpos[p] = c

\* where in the list l the cursor sp stands: the place of the link, 1 for
\* the cursor of a first call, behind the last link for the head
Rank(l, sp) ==
  IF sp = NULL THEN 1
  ELSE IF sp = HEAD THEN Len(l) + 1
       ELSE CHOOSE k \in 1..Len(l) : l[k] = sp

\* a step within one enumeration of p never moves the cursor back, and the
\* caller's advance moves it past the descriptor just returned
CursorForward(p) ==
  (Enumerating(p) /\ Enumerating(p)') =>
    /\ Rank(cmd_head', startpos'[p]) >= Rank(cmd_head, startpos[p])
    /\ (pc[p] = "compl1_got" /\ pc'[p] # "compl1_got") =>
         Rank(cmd_head', startpos'[p]) > Rank(cmd_head, startpos[p])

\* the descriptors returned to p so far in this enumeration are as many as
\* the linked descriptors before the cursor whose names begin with name[p]
CountedOnce(p) ==
  (Enumerating(p) /\ startpos[p] # HEAD) =>
    found[p] = Cardinality({ k \in 1..(Rank(cmd_head, startpos[p]) - 1) :
                              StartsWith(info[cmd_head[k]].name, name[p]) })

\* completion and registration only: no context parses a line
EnumNext == \E p \in Procs : Register(p) \/ Completion(p)

\* every context goes on with the operation it is in, and a context
\* spinning for cmd_lock gets it when it is released again and again
EnumSpec ==
  /\ Init
  /\ [][EnumNext]_vars
  /\ \A p \in Procs : WF_vars(Continue(p)) /\ SF_vars(TakeCmdLock(p))

====
